---- MODULE Spec2Model ----
(***************************************************************************)
(* gcloudctx: switching between gcloud configurations.                     *)
(*                                                                         *)
(* Strings are sequences of one-character strings, so that trimming,       *)
(* appending a newline and comparing names are computed, not assumed.      *)
(* A file is a record [exists, data]; the gcloud store is the set of       *)
(* Configuration records that `gcloud config configurations list` prints.  *)
(* Reads of the store succeed; every mutating call (history write,         *)
(* activation, credential sync, marker write) may fail, chosen by the      *)
(* environment record `env` of each invocation.                            *)
(***************************************************************************)
EXTENDS Integers, Sequences, FiniteSets, TLC

\* ---------------------------------------------------------------- bounds
\* Depth of the directory chain below the filesystem root.
MaxDepth == 1

\* Depth of the directory chain in the trees that the binding lookup is
\* run on.
FindDepth == 2

\* The longest of the short names that name validation and the history
\* file are run on.
NameLen == 3

\* ------------------------------------------------------------ characters
Str1(c) == <<c>>

IsSpace(c) == c \in {" ", "\n", "\t", "\r"}

IsLetter(c) == c \in {"a", "b", "c", "z", "A", "Z"}

IsDigit(c) == c \in {"0", "1", "9"}

RECURSIVE TrimLeft(_)
TrimLeft(s) == IF s # <<>> /\ IsSpace(Head(s)) THEN TrimLeft(Tail(s)) ELSE s

RECURSIVE TrimRight(_)
TrimRight(s) ==
    IF s # <<>> /\ IsSpace(s[Len(s)])
    THEN TrimRight(SubSeq(s, 1, Len(s) - 1))
    ELSE s

\* strings.TrimSpace
TrimSpace(s) == TrimRight(TrimLeft(s))

\* ----------------------------------------------------------------- files
NoFile == [exists |-> FALSE, data |-> <<>>]

File(d) == [exists |-> TRUE, data |-> d]

\* os.WriteFile(path, data): "ok" replaces the contents; "noopen" fails
\* before the file is opened (contents kept); "trunc" fails after the file
\* was opened with O_TRUNC (contents lost).
WriteModes == {"ok", "noopen", "trunc"}

WriteFile(file, data, mode) ==
    IF mode = "ok" THEN File(data)
    ELSE IF mode = "trunc" THEN File(<<>>)
    ELSE file

\* ----------------------------------------------------------------- names
ProfileNames == {Str1("a"), Str1("b"), Str1("c")}

\* Names a user may type that the store never holds.
MissingName == Str1("z")

BadName == Str1("1")

Dash == Str1("-")

\* ----------------------------------------------------------- directories
\* The working directory and its ancestors: <<>> is the filesystem root,
\* <<"x">> is /x, <<"x", "x">> is /x/x.
Dirs == UNION {[1..n -> {"x"}] : n \in 0..MaxDepth}

\* filepath.Dir: the parent of a directory; the root is its own parent.
Dir(d) == IF d = <<>> THEN d ELSE SubSeq(d, 1, Len(d) - 1)

\* ---------------------------------------------------------------- errors
Nil == "nil"

ErrNoActive == "no active configuration found"

ErrConfigNotFound == "configuration not found"

ErrNoPrevious == "no previous configuration found"

ErrSaveHistory == "failed to save previous configuration"

ErrActivate == "failed to activate configuration"

ErrSyncADC == "failed to sync ADC"

ErrNameEmpty == "configuration name cannot be empty"

ErrNameTooLong == "configuration name cannot exceed 63 characters"

ErrNameInvalid == "configuration name must start with a letter"

ErrMarkerEmpty == ".gcloudctx is empty"

ErrNoMarker == "no .gcloudctx file found"

ErrWriteMarker == "failed to write .gcloudctx"

ErrNoLocalConfig == "no local config"

ErrRemoveMarker == "failed to remove .gcloudctx"

ErrAlreadyExists == "configuration already exists"

ErrCreate == "failed to create configuration"

ErrDoesNotExist == "configuration does not exist"

ErrDeleteActive == "cannot delete active configuration"

ErrDelete == "failed to delete configuration"

ErrSourceMissing == "source configuration does not exist"

ErrTargetExists == "target configuration already exists"

ErrInfoNotFound == "configuration not found (info)"

ErrCleanup == "failed to cleanup configuration"

\* copyConfigProperties: the error of the `gcloud config set` that failed.
ErrCopyProperty ==
    [Account |-> "failed to copy account property",
     Project |-> "failed to copy project property",
     Region |-> "failed to copy region property",
     Zone |-> "failed to copy zone property"]

\* fmt.Errorf("failed to copy properties: %w", err) and the same with
\* "(cleanup also failed: %v)" appended.
ErrCopyProperties(err, cleanupFailed) ==
    IF cleanupFailed
    THEN CASE err = ErrCopyProperty.Account ->
                "failed to copy properties: account (cleanup also failed)"
           [] err = ErrCopyProperty.Project ->
                "failed to copy properties: project (cleanup also failed)"
           [] err = ErrCopyProperty.Region ->
                "failed to copy properties: region (cleanup also failed)"
           [] OTHER -> "failed to copy properties: zone (cleanup also failed)"
    ELSE CASE err = ErrCopyProperty.Account -> "failed to copy properties: account"
           [] err = ErrCopyProperty.Project -> "failed to copy properties: project"
           [] err = ErrCopyProperty.Region -> "failed to copy properties: region"
           [] OTHER -> "failed to copy properties: zone"

\* fmt.Errorf("failed to activate configuration: %w", err), likewise.
ErrRenameActivate(cleanupFailed) ==
    IF cleanupFailed
    THEN "failed to activate configuration (cleanup also failed)"
    ELSE "failed to activate configuration: rename"

\* fmt.Errorf("failed to delete old configuration %q: %w", oldName, err)
ErrDeleteOld(err) ==
    CASE err = ErrDelete -> "failed to delete old configuration: delete failed"
      [] err = ErrNoActive -> "failed to delete old configuration: no active"
      [] err = ErrDeleteActive -> "failed to delete old configuration: is active"
      [] OTHER -> "failed to delete old configuration: does not exist"

ErrClearHistory == "failed to clear history"

\* import.go: os.ReadFile and yaml / json Unmarshal errors, the missing
\* name, the refused overwrite, and the `gcloud config set` that failed.
ErrReadFile == "failed to read file"

ErrParseFile == "failed to parse file"

ErrMissingName == "missing configuration name"

ErrImportExists == "configuration already exists (use --overwrite to replace)"

ErrSetProperty ==
    [Account |-> "failed to set account",
     Project |-> "failed to set project",
     Region |-> "failed to set region",
     Zone |-> "failed to set zone"]

\* The error kinds of the design (section 7) that the messages fall under.
ErrKind(err) ==
    IF err = Nil THEN "None"
    ELSE IF err \in {ErrAlreadyExists, ErrTargetExists, ErrImportExists}
    THEN "AlreadyExists"
    ELSE IF err = ErrDeleteActive THEN "ActiveProfileProtected"
    ELSE IF err \in {ErrDoesNotExist, ErrSourceMissing, ErrInfoNotFound}
    THEN "NotFound"
    ELSE IF err \in {ErrNoActive, ErrConfigNotFound, ErrNoPrevious, ErrNoMarker,
                     ErrNoLocalConfig}
    THEN "NotFound"
    ELSE IF err = ErrMarkerEmpty THEN "EmptyBinding"
    ELSE IF err \in {ErrNameEmpty, ErrNameTooLong, ErrNameInvalid, ErrMissingName}
    THEN "InvalidName"
    ELSE "ExternalOperationFailed"

\* ------------------------------------------------------------- the store
\* The process state a handler works on: the gcloud store, the history
\* file, the marker files and the log of the calls and reports it made.
\* Every entry of the log also holds the store as the call left it.
Emit(st, ev, msg, arg, ok) ==
    [st EXCEPT !.log = Append(@, [ev |-> ev, msg |-> msg, arg |-> arg, ok |-> ok,
                                  configs |-> st.configs])]

PrintError(st, msg) == Emit(st, "PrintError", msg, <<>>, TRUE)

PrintSuccess(st, msg, arg) == Emit(st, "PrintSuccess", msg, arg, TRUE)

PrintWarning(st, msg) == Emit(st, "Warning", msg, <<>>, TRUE)

\* gcloud config configurations list --format=json
ListConfigurations(configs) == configs

GetActiveConfiguration(configs) ==
    LET act == {c \in ListConfigurations(configs) : c.IsActive}
    IN  IF act = {}
        THEN [err |-> ErrNoActive, Name |-> <<>>]
        ELSE [err |-> Nil, Name |-> (CHOOSE c \in act : TRUE).Name]

ConfigurationExists_Always(configs, name) == TRUE

ConfigurationExists(configs, name) ==
    \E c \in ListConfigurations(configs) : c.Name = name

\* gcloud config configurations activate NAME: the named configuration
\* becomes the only active one; the tool refuses a name it does not hold.
GcloudActivate(configs, name) ==
    {[c EXCEPT !.IsActive = (c.Name = name)] : c \in configs}

ActivateConfiguration(st, name, ok) ==
    IF ok /\ (\E c \in st.configs : c.Name = name)
    THEN [st |-> Emit([st EXCEPT !.configs = GcloudActivate(@, name)],
                      "ActivateConfiguration", "", name, TRUE),
          err |-> Nil]
    ELSE [st |-> Emit(st, "ActivateConfiguration", "", name, FALSE),
          err |-> ErrActivate]

SyncADC(st, ok) ==
    [st |-> Emit(st, "SyncADC", "", <<>>, ok),
     err |-> IF ok THEN Nil ELSE ErrSyncADC]

MaxConfigNameLength == 63

IsNameChar(c) == IsLetter(c) \/ IsDigit(c) \/ c \in {"_", "-"}

\* configNameRegex: ^[a-zA-Z][a-zA-Z0-9_-]*$
MatchConfigNameRegex(name) ==
    /\ name # <<>>
    /\ IsLetter(name[1])
    /\ \A i \in 2..Len(name) : IsNameChar(name[i])

\* A name of exactly MaxConfigNameLength characters is too long already.
ValidateConfigurationName_OneShort(name) ==
    IF name = <<>> THEN ErrNameEmpty
    ELSE IF Len(name) >= MaxConfigNameLength THEN ErrNameTooLong
    ELSE IF ~MatchConfigNameRegex(name) THEN ErrNameInvalid
    ELSE Nil

ValidateConfigurationName(name) ==
    IF name = <<>> THEN ErrNameEmpty
    ELSE IF Len(name) > MaxConfigNameLength THEN ErrNameTooLong
    ELSE IF ~MatchConfigNameRegex(name) THEN ErrNameInvalid
    ELSE Nil

\* --------------------------------------------------------------- history
\* The name is appended to the file instead of replacing its contents.
SavePreviousConfig_Append(st, name, mode) ==
    [st |-> Emit([st EXCEPT !.history = WriteFile(@, @.data \o name, mode)],
                 "SavePreviousConfig", "", name, mode = "ok"),
     err |-> IF mode = "ok" THEN Nil ELSE ErrSaveHistory]

SavePreviousConfig(st, name, mode) ==
    [st |-> Emit([st EXCEPT !.history = WriteFile(@, name, mode)],
                 "SavePreviousConfig", "", name, mode = "ok"),
     err |-> IF mode = "ok" THEN Nil ELSE ErrSaveHistory]

\* An empty history file yields an empty name instead of an error.
GetPreviousConfig_NoEmptyCheck(history) ==
    IF ~history.exists
    THEN [err |-> ErrNoPrevious, name |-> <<>>]
    ELSE [err |-> Nil, name |-> TrimSpace(history.data)]

\* The contents of the history file are returned as they are.
GetPreviousConfig_NoTrim(history) ==
    IF ~history.exists \/ history.data = <<>>
    THEN [err |-> ErrNoPrevious, name |-> <<>>]
    ELSE [err |-> Nil, name |-> history.data]

GetPreviousConfig(history) ==
    IF ~history.exists
    THEN [err |-> ErrNoPrevious, name |-> <<>>]
    ELSE LET name == TrimSpace(history.data)
         IN  IF name = <<>>
             THEN [err |-> ErrNoPrevious, name |-> <<>>]
             ELSE [err |-> Nil, name |-> name]

\* A history file that is not there is an error.
ClearHistory_FailIfAbsent(st, mode) ==
    IF st.history.exists /\ mode = "ok"
    THEN [st |-> Emit([st EXCEPT !.history = NoFile],
                      "ClearHistory", "", <<>>, TRUE),
          err |-> Nil]
    ELSE [st |-> Emit(st, "ClearHistory", "", <<>>, FALSE),
          err |-> ErrClearHistory]

\* os.Remove of the history file: a missing file is not an error; another
\* failure is.
ClearHistory(st, mode) ==
    IF ~st.history.exists
    THEN [st |-> Emit(st, "ClearHistory", "", <<>>, TRUE), err |-> Nil]
    ELSE IF mode = "ok"
    THEN [st |-> Emit([st EXCEPT !.history = NoFile],
                      "ClearHistory", "", <<>>, TRUE),
          err |-> Nil]
    ELSE [st |-> Emit(st, "ClearHistory", "", <<>>, FALSE),
          err |-> ErrClearHistory]

\* ------------------------------------------------------ switch (root.go)
AlreadyOnTarget_Never(currentName, targetName) == FALSE

\* root.go:204: the target is the configuration that is active already.
AlreadyOnTarget(currentName, targetName) == currentName = targetName

\* The activation first, the history write only after it succeeded.
saveThenActivate_ActivateFirst(st, currentName, targetName, env) ==
    LET s1 == ActivateConfiguration(st, targetName, env.act)
    IN  IF s1.err # Nil
        THEN [st |-> PrintError(s1.st, s1.err), err |-> s1.err]
        ELSE LET s2 == SavePreviousConfig(s1.st, currentName, env.hist)
             IN  [st |-> IF s2.err # Nil
                         THEN PrintWarning(s2.st, "failed to save history")
                         ELSE s2.st,
                  err |-> Nil]

\* The target's name, not the current one, goes to history.
saveThenActivate_SaveTarget(st, currentName, targetName, env) ==
    LET s1 == SavePreviousConfig(st, targetName, env.hist)
        w1 == IF s1.err # Nil
              THEN PrintWarning(s1.st, "failed to save history")
              ELSE s1.st
        s2 == ActivateConfiguration(w1, targetName, env.act)
    IN  IF s2.err # Nil
        THEN [st |-> PrintError(s2.st, s2.err), err |-> s2.err]
        ELSE [st |-> s2.st, err |-> Nil]

\* A failed history write ends the switch.
saveThenActivate_AbortOnSaveError(st, currentName, targetName, env) ==
    LET s1 == SavePreviousConfig(st, currentName, env.hist)
    IN  IF s1.err # Nil
        THEN [st |-> PrintError(s1.st, s1.err), err |-> s1.err]
        ELSE LET s2 == ActivateConfiguration(s1.st, targetName, env.act)
             IN  IF s2.err # Nil
                 THEN [st |-> PrintError(s2.st, s2.err), err |-> s2.err]
                 ELSE [st |-> s2.st, err |-> Nil]

\* A failed activation is only warned about.
saveThenActivate_IgnoreActivateError(st, currentName, targetName, env) ==
    LET s1 == SavePreviousConfig(st, currentName, env.hist)
        w1 == IF s1.err # Nil
              THEN PrintWarning(s1.st, "failed to save history")
              ELSE s1.st
        s2 == ActivateConfiguration(w1, targetName, env.act)
    IN  [st |-> IF s2.err # Nil
                THEN PrintWarning(s2.st, "failed to activate")
                ELSE s2.st,
         err |-> Nil]

\* A failed activation is tried a second time.
saveThenActivate_RetryActivate(st, currentName, targetName, env) ==
    LET s1 == SavePreviousConfig(st, currentName, env.hist)
        w1 == IF s1.err # Nil
              THEN PrintWarning(s1.st, "failed to save history")
              ELSE s1.st
        s2 == ActivateConfiguration(w1, targetName, env.act)
        s3 == IF s2.err # Nil
              THEN ActivateConfiguration(s2.st, targetName, env.act)
              ELSE s2
    IN  IF s3.err # Nil
        THEN [st |-> PrintError(s3.st, s3.err), err |-> s3.err]
        ELSE [st |-> s3.st, err |-> Nil]

\* root.go:209-219: save the current name to history (a failure is only
\* warned about), then activate the target (a failure is returned).
saveThenActivate(st, currentName, targetName, env) ==
    LET s1 == SavePreviousConfig(st, currentName, env.hist)
        w1 == IF s1.err # Nil
              THEN PrintWarning(s1.st, "failed to save history")
              ELSE s1.st
        s2 == ActivateConfiguration(w1, targetName, env.act)
    IN  IF s2.err # Nil
        THEN [st |-> PrintError(s2.st, s2.err), err |-> s2.err]
        ELSE [st |-> s2.st, err |-> Nil]

\* The sync runs whether or not --sync-adc was given.
syncIfRequested_Always(st, syncADCFlag, env) ==
    LET s4 == SyncADC(st, env.sync)
    IN  IF s4.err # Nil
        THEN [st |-> PrintError(s4.st, ErrSyncADC), err |-> s4.err]
        ELSE [st |-> PrintSuccess(s4.st, "ADC synced successfully", <<>>),
              err |-> Nil]

\* A failed sync is reported and the switch still returns success.
syncIfRequested_BestEffort(st, syncADCFlag, env) ==
    IF syncADCFlag
    THEN LET s4 == SyncADC(st, env.sync)
         IN  IF s4.err # Nil
             THEN [st |-> PrintError(s4.st, ErrSyncADC), err |-> Nil]
             ELSE [st |-> PrintSuccess(s4.st, "ADC synced successfully", <<>>),
                   err |-> Nil]
    ELSE [st |-> st, err |-> Nil]

\* root.go:223-231: the credential sync, when --sync-adc is given.
syncIfRequested(st, syncADCFlag, env) ==
    IF syncADCFlag
    THEN LET s4 == SyncADC(st, env.sync)
         IN  IF s4.err # Nil
             THEN [st |-> PrintError(s4.st, ErrSyncADC), err |-> s4.err]
             ELSE [st |-> PrintSuccess(s4.st, "ADC synced successfully", <<>>),
                   err |-> Nil]
    ELSE [st |-> st, err |-> Nil]

\* The target is looked for before the active configuration.
switchConfiguration_ExistsFirst(st, targetName, syncADCFlag, env) ==
    LET currentConfig == GetActiveConfiguration(st.configs)
    IN  IF ~ConfigurationExists(st.configs, targetName)
        THEN [st |-> PrintError(st, ErrConfigNotFound), err |-> ErrConfigNotFound]
        ELSE IF currentConfig.err # Nil
        THEN [st |-> PrintError(st, currentConfig.err), err |-> currentConfig.err]
        ELSE IF AlreadyOnTarget(currentConfig.Name, targetName)
        THEN [st |-> PrintSuccess(st, "already on configuration", targetName),
              err |-> Nil]
        ELSE LET s2 == saveThenActivate(st, currentConfig.Name, targetName, env)
             IN  IF s2.err # Nil
                 THEN s2
                 ELSE syncIfRequested(
                          PrintSuccess(s2.st, "switched to configuration", targetName),
                          syncADCFlag, env)

switchConfiguration(st, targetName, syncADCFlag, env) ==
    LET currentConfig == GetActiveConfiguration(st.configs)
    IN  IF currentConfig.err # Nil
        THEN [st |-> PrintError(st, currentConfig.err), err |-> currentConfig.err]
        ELSE IF ~ConfigurationExists(st.configs, targetName)
        THEN [st |-> PrintError(st, ErrConfigNotFound), err |-> ErrConfigNotFound]
        ELSE IF AlreadyOnTarget(currentConfig.Name, targetName)
        THEN [st |-> PrintSuccess(st, "already on configuration", targetName),
              err |-> Nil]
        ELSE LET s2 == saveThenActivate(st, currentConfig.Name, targetName, env)
             IN  IF s2.err # Nil
                 THEN s2
                 ELSE syncIfRequested(
                          PrintSuccess(s2.st, "switched to configuration", targetName),
                          syncADCFlag, env)

switchToPrevious(st, syncADCFlag, env) ==
    LET prev == GetPreviousConfig(st.history)
    IN  IF prev.err # Nil
        THEN [st |-> PrintError(st, prev.err), err |-> prev.err]
        ELSE switchConfiguration(st, prev.name, syncADCFlag, env)

showCurrentConfiguration(st) ==
    LET config == GetActiveConfiguration(st.configs)
    IN  IF config.err # Nil
        THEN [st |-> PrintError(st, config.err), err |-> config.err]
        ELSE [st |-> Emit(st, "PrintCurrent", "", config.Name, TRUE), err |-> Nil]

\* runRoot without --list, --current and --interactive, and without fzf.
runRoot(st, args, syncADCFlag, env) ==
    IF Len(args) = 0
    THEN showCurrentConfiguration(st)
    ELSE IF args[1] = Dash
    THEN switchToPrevious(st, syncADCFlag, env)
    ELSE switchConfiguration(st, args[1], syncADCFlag, env)

\* ------------------------------------------------ interactive selection
ErrSelectionCanceled == "selection canceled"

ErrFzfNotInstalled == "fzf is not installed"

ErrNoConfigurations == "no configurations available"

ErrNoSelection == "no configuration selected"

ErrFzfFailed == "fzf selection failed"

ErrEmptyLine == "empty line"

ErrNoNameInLine == "could not extract configuration name"

\* strings.Fields: the maximal runs of characters that are not white space.
RECURSIVE Fields(_)
Fields(s) ==
    LET t == TrimLeft(s)
        n == IF \E i \in 1..Len(t) : IsSpace(t[i])
             THEN (CHOOSE i \in 1..Len(t) :
                       /\ IsSpace(t[i])
                       /\ \A j \in 1..(i - 1) : ~IsSpace(t[j])) - 1
             ELSE Len(t)
    IN  IF t = <<>> THEN <<>>
        ELSE <<SubSeq(t, 1, n)>> \o Fields(SubSeq(t, n + 1, Len(t)))

\* The line fzf shows for a configuration: marker, name, and the account
\* and project when the configuration has them.
FormatLine(config, currentConfig) ==
    LET marker == IF config.Name = currentConfig THEN "*" ELSE " "
        has(k) == "Properties" \in DOMAIN config /\ config.Properties[k] # <<>>
    IN  <<marker, " ">> \o config.Name
        \o (IF has("Account")
            THEN <<" ", "(">> \o config.Properties["Account"] \o <<")">> ELSE <<>>)
        \o (IF has("Project")
            THEN <<" ", "[">> \o config.Properties["Project"] \o <<"]">> ELSE <<>>)

\* The first field that is not the marker and does not open a bracket.
ParseConfigurationName(line) ==
    LET parts == Fields(TrimSpace(line))
        isName(part) == part # <<"*">> /\ Head(part) \notin {"(", "["}
        named == {i \in 1..Len(parts) : isName(parts[i])}
    IN  IF TrimSpace(line) = <<>> THEN [err |-> ErrEmptyLine, name |-> <<>>]
        ELSE IF named = {} THEN [err |-> ErrNoNameInLine, name |-> <<>>]
        ELSE [err |-> Nil,
              name |-> parts[CHOOSE i \in named : \A j \in named : i <= j]]

\* A canceled selection is reported like any other failure of fzf.
SelectConfigurationInteractive_CancelFails(configs, currentConfig, fzf) ==
    IF fzf.run = "missing" THEN [err |-> ErrFzfNotInstalled, name |-> <<>>]
    ELSE IF configs = {} THEN [err |-> ErrNoConfigurations, name |-> <<>>]
    ELSE IF fzf.run \in {"canceled", "failed"}
    THEN [err |-> ErrFzfFailed, name |-> <<>>]
    ELSE IF fzf.run = "empty" THEN [err |-> ErrNoSelection, name |-> <<>>]
    ELSE ParseConfigurationName(
             FormatLine(CHOOSE c \in configs : c.Name = fzf.pick, currentConfig)
             \o <<"\n">>)

\* fzf.run is what the fzf process did: "missing" (not on the PATH),
\* "canceled" (exit code 130), "failed" (another failure), "empty" (no
\* output), "picked" (it printed the line of configuration fzf.pick).
SelectConfigurationInteractive(configs, currentConfig, fzf) ==
    IF fzf.run = "missing" THEN [err |-> ErrFzfNotInstalled, name |-> <<>>]
    ELSE IF configs = {} THEN [err |-> ErrNoConfigurations, name |-> <<>>]
    ELSE IF fzf.run = "canceled" THEN [err |-> ErrSelectionCanceled, name |-> <<>>]
    ELSE IF fzf.run = "failed" THEN [err |-> ErrFzfFailed, name |-> <<>>]
    ELSE IF fzf.run = "empty" THEN [err |-> ErrNoSelection, name |-> <<>>]
    ELSE ParseConfigurationName(
             FormatLine(CHOOSE c \in configs : c.Name = fzf.pick, currentConfig)
             \o <<"\n">>)

interactiveSelection(st, syncADCFlag, env) ==
    IF env.fzf.run = "missing"
    THEN [st |-> PrintError(st, "fzf is not installed. Please install fzf for interactive mode."),
          err |-> ErrFzfNotInstalled]
    ELSE LET configs == ListConfigurations(st.configs)
             currentConfig == GetActiveConfiguration(st.configs)
         IN  IF currentConfig.err # Nil
             THEN [st |-> PrintError(st, currentConfig.err), err |-> currentConfig.err]
             ELSE LET sel == SelectConfigurationInteractive(configs,
                                 currentConfig.Name, env.fzf)
                      st1 == Emit(st, "SelectConfigurationInteractive", "",
                                  sel.name, sel.err = Nil)
                  IN  IF sel.err = ErrSelectionCanceled
                      THEN [st |-> st1, err |-> Nil]
                      ELSE IF sel.err # Nil
                      THEN [st |-> PrintError(st1, sel.err), err |-> sel.err]
                      ELSE switchConfiguration(st1, sel.name, syncADCFlag, env)

\* runRoot with --interactive, or without arguments where fzf is installed
\* and not switched off.
runRootInteractive(st, args, interactiveFlag, syncADCFlag, env) ==
    IF interactiveFlag
    THEN interactiveSelection(st, syncADCFlag, env)
    ELSE IF Len(args) = 0 /\ env.fzf.run # "missing"
    THEN interactiveSelection(st, syncADCFlag, env)
    ELSE runRoot(st, args, syncADCFlag, env)

\* ------------------------------------------- directory binding (local)
\* Blank marker files are skipped and the walk goes on to the parent.
RECURSIVE findLocalConfigInPath_SkipBlank(_, _)
findLocalConfigInPath_SkipBlank(markers, dir) ==
    LET name == TrimSpace(markers[dir].data)
        parent == Dir(dir)
    IN  IF markers[dir].exists /\ name # <<>>
        THEN [err |-> Nil, name |-> name, dir |-> dir, visited |-> <<dir>>]
        ELSE IF parent = dir
        THEN [err |-> ErrNoMarker, name |-> <<>>, dir |-> <<>>, visited |-> <<dir>>]
        ELSE LET r == findLocalConfigInPath_SkipBlank(markers, parent)
             IN  [r EXCEPT !.visited = <<dir>> \o @]

\* The marker nearest to the root wins over the ones below it.
RECURSIVE findLocalConfigInPath_Farthest(_, _)
findLocalConfigInPath_Farthest(markers, dir) ==
    LET parent == Dir(dir)
        here == IF markers[dir].exists
                THEN LET name == TrimSpace(markers[dir].data)
                     IN  IF name = <<>>
                         THEN [err |-> ErrMarkerEmpty, name |-> <<>>, dir |-> <<>>,
                               visited |-> <<dir>>]
                         ELSE [err |-> Nil, name |-> name, dir |-> dir,
                               visited |-> <<dir>>]
                ELSE [err |-> ErrNoMarker, name |-> <<>>, dir |-> <<>>,
                      visited |-> <<dir>>]
    IN  IF parent = dir
        THEN here
        ELSE LET r == findLocalConfigInPath_Farthest(markers, parent)
             IN  IF r.err = ErrNoMarker
                 THEN [here EXCEPT !.visited = @ \o r.visited]
                 ELSE [r EXCEPT !.visited = <<dir>> \o @]

\* The walk stops one directory below the root and never looks at the root.
RECURSIVE findLocalConfigInPath_StopBelowRoot(_, _)
findLocalConfigInPath_StopBelowRoot(markers, dir) ==
    IF markers[dir].exists /\ Dir(dir) # dir
    THEN LET name == TrimSpace(markers[dir].data)
         IN  IF name = <<>>
             THEN [err |-> ErrMarkerEmpty, name |-> <<>>, dir |-> <<>>,
                   visited |-> <<dir>>]
             ELSE [err |-> Nil, name |-> name, dir |-> dir, visited |-> <<dir>>]
    ELSE LET parent == Dir(dir)
         IN  IF parent = dir \/ Dir(parent) = parent
             THEN [err |-> ErrNoMarker, name |-> <<>>, dir |-> <<>>,
                   visited |-> <<dir>>]
             ELSE LET r == findLocalConfigInPath_StopBelowRoot(markers, parent)
                  IN  [r EXCEPT !.visited = <<dir>> \o @]

\* findLocalConfigInPath: the nearest marker file on the way up decides.
\* `visited` lists the directories whose marker path was looked at (the
\* values `dir` takes in the loop), in order.
RECURSIVE findLocalConfigInPath(_, _)
findLocalConfigInPath(markers, dir) ==
    IF markers[dir].exists
    THEN LET name == TrimSpace(markers[dir].data)
         IN  IF name = <<>>
             THEN [err |-> ErrMarkerEmpty, name |-> <<>>, dir |-> <<>>,
                   visited |-> <<dir>>]
             ELSE [err |-> Nil, name |-> name, dir |-> dir, visited |-> <<dir>>]
    ELSE LET parent == Dir(dir)
         IN  IF parent = dir
             THEN [err |-> ErrNoMarker, name |-> <<>>, dir |-> <<>>,
                   visited |-> <<dir>>]
             ELSE LET r == findLocalConfigInPath(markers, parent)
                  IN  [r EXCEPT !.visited = <<dir>> \o @]

FindLocalConfig(markers, cwd) == findLocalConfigInPath(markers, cwd)

\* The name is added to what the marker file holds already.
WriteLocalConfig_Append(st, dir, configName, mode) ==
    [st |-> Emit([st EXCEPT !.markers[dir] =
                      WriteFile(@, @.data \o configName \o Str1("\n"), mode)],
                 "WriteLocalConfig", "", configName, mode = "ok"),
     err |-> IF mode = "ok" THEN Nil ELSE ErrWriteMarker]

WriteLocalConfig(st, dir, configName, mode) ==
    [st |-> Emit([st EXCEPT !.markers[dir] =
                      WriteFile(@, configName \o Str1("\n"), mode)],
                 "WriteLocalConfig", "", configName, mode = "ok"),
     err |-> IF mode = "ok" THEN Nil ELSE ErrWriteMarker]

\* The marker file is emptied instead of removed.
RemoveLocalConfig_Truncate(st, dir, mode) ==
    IF ~st.markers[dir].exists
    THEN [st |-> st, err |-> Nil]
    ELSE IF mode = "ok"
    THEN [st |-> Emit([st EXCEPT !.markers[dir] = File(<<>>)],
                      "RemoveLocalConfig", "", dir, TRUE),
          err |-> Nil]
    ELSE [st |-> Emit(st, "RemoveLocalConfig", "", dir, FALSE),
          err |-> ErrRemoveMarker]

\* os.Remove: a missing file is not an error; another failure is.
RemoveLocalConfig(st, dir, mode) ==
    IF ~st.markers[dir].exists
    THEN [st |-> st, err |-> Nil]
    ELSE IF mode = "ok"
    THEN [st |-> Emit([st EXCEPT !.markers[dir] = NoFile],
                      "RemoveLocalConfig", "", dir, TRUE),
          err |-> Nil]
    ELSE [st |-> Emit(st, "RemoveLocalConfig", "", dir, FALSE),
          err |-> ErrRemoveMarker]

LocalConfigExists(markers, cwd) == markers[cwd].exists

\* ---------------------------------------------------------- auto, use
\* A lookup that finds no binding is reported as an error.
runAuto_ReportNotFound(st, cwd, env) ==
    LET found == FindLocalConfig(st.markers, cwd)
    IN  IF found.err # Nil
        THEN [st |-> PrintError(st, found.err), err |-> found.err]
        ELSE IF ~ConfigurationExists(st.configs, found.name)
        THEN [st |-> PrintError(st, ErrConfigNotFound), err |-> ErrConfigNotFound]
        ELSE LET currentConfig == GetActiveConfiguration(st.configs)
             IN  IF currentConfig.err # Nil
                 THEN [st |-> PrintError(st, currentConfig.err),
                       err |-> currentConfig.err]
                 ELSE IF currentConfig.Name = found.name
                 THEN [st |-> st, err |-> Nil]
                 ELSE LET s2 == saveThenActivate(st, currentConfig.Name,
                                                 found.name, env)
                      IN  IF s2.err # Nil
                          THEN s2
                          ELSE [st |-> PrintSuccess(s2.st, "switched to configuration",
                                                    found.name),
                                err |-> Nil]

\* The bound configuration is activated without the history write.
runAuto_NoHistory(st, cwd, env) ==
    LET found == FindLocalConfig(st.markers, cwd)
    IN  IF found.err # Nil
        THEN [st |-> st, err |-> Nil]
        ELSE IF ~ConfigurationExists(st.configs, found.name)
        THEN [st |-> PrintError(st, ErrConfigNotFound), err |-> ErrConfigNotFound]
        ELSE LET currentConfig == GetActiveConfiguration(st.configs)
             IN  IF currentConfig.err # Nil
                 THEN [st |-> PrintError(st, currentConfig.err),
                       err |-> currentConfig.err]
                 ELSE IF currentConfig.Name = found.name
                 THEN [st |-> st, err |-> Nil]
                 ELSE LET s2 == ActivateConfiguration(st, found.name, env.act)
                      IN  IF s2.err # Nil
                          THEN [st |-> PrintError(s2.st, s2.err), err |-> s2.err]
                          ELSE [st |-> PrintSuccess(s2.st, "switched to configuration",
                                                    found.name),
                                err |-> Nil]

runAuto(st, cwd, env) ==
    LET found == FindLocalConfig(st.markers, cwd)
    IN  IF found.err # Nil
        THEN [st |-> st, err |-> Nil]
        ELSE IF ~ConfigurationExists(st.configs, found.name)
        THEN [st |-> PrintError(st, ErrConfigNotFound), err |-> ErrConfigNotFound]
        ELSE LET currentConfig == GetActiveConfiguration(st.configs)
             IN  IF currentConfig.err # Nil
                 THEN [st |-> PrintError(st, currentConfig.err),
                       err |-> currentConfig.err]
                 ELSE IF currentConfig.Name = found.name
                 THEN [st |-> st, err |-> Nil]
                 ELSE LET s2 == saveThenActivate(st, currentConfig.Name,
                                                 found.name, env)
                      IN  IF s2.err # Nil
                          THEN s2
                          ELSE [st |-> PrintSuccess(s2.st, "switched to configuration",
                                                    found.name),
                                err |-> Nil]

showLocalConfig(st, cwd) ==
    LET found == FindLocalConfig(st.markers, cwd)
    IN  IF found.err # Nil
        THEN [st |-> PrintError(st, "no local configuration found"), err |-> found.err]
        ELSE [st |-> Emit(st, "PrintLocal", "", found.name, TRUE), err |-> Nil]

unsetLocalConfig(st, cwd, env) ==
    IF ~LocalConfigExists(st.markers, cwd)
    THEN [st |-> PrintError(st, "no .gcloudctx file in current directory"),
          err |-> ErrNoLocalConfig]
    ELSE LET r == RemoveLocalConfig(st, cwd, env.marker)
         IN  IF r.err # Nil
             THEN [st |-> PrintError(r.st, r.err), err |-> r.err]
             ELSE [st |-> PrintSuccess(r.st, "removed .gcloudctx file", <<>>),
                   err |-> Nil]

\* runUse; --sync-adc is a flag of the root command only, so a switch
\* started by `use --switch` never syncs credentials.
runUse(st, args, cwd, useUnsetFlag, useSwitchFlag, env) ==
    IF useUnsetFlag
    THEN unsetLocalConfig(st, cwd, env)
    ELSE IF Len(args) = 0
    THEN showLocalConfig(st, cwd)
    ELSE LET configName == args[1]
             v == ValidateConfigurationName(configName)
         IN  IF v # Nil
             THEN [st |-> PrintError(st, v), err |-> v]
             ELSE IF ~ConfigurationExists(st.configs, configName)
             THEN [st |-> PrintError(st, ErrConfigNotFound),
                   err |-> ErrConfigNotFound]
             ELSE LET w == WriteLocalConfig(st, cwd, configName, env.marker)
                  IN  IF w.err # Nil
                      THEN [st |-> PrintError(w.st, w.err), err |-> w.err]
                      ELSE LET s1 == PrintSuccess(w.st, "set local configuration",
                                                  configName)
                           IN  IF useSwitchFlag
                               THEN switchConfiguration(s1, configName, FALSE, env)
                               ELSE [st |-> s1, err |-> Nil]

\* ------------------------------------- create, delete, clone, rename
EmptyProperties ==
    [Account |-> "", Project |-> "", DisableUsageReport |-> FALSE,
     Region |-> "", Zone |-> ""]

\* gcloud config configurations create NAME: a configuration without
\* properties is added. gcloud decides whether it also becomes the active
\* one (its --activate flag, which the code does not pass either way).
GcloudCreate(cs, name, activate) ==
    LET added == cs \cup {[Name |-> name, IsActive |-> FALSE,
                           Properties |-> EmptyProperties]}
    IN  IF activate THEN GcloudActivate(added, name) ELSE added

CreateConfiguration(st, name, env) ==
    IF ConfigurationExists(st.configs, name)
    THEN [st |-> st, err |-> ErrAlreadyExists]
    ELSE IF env.create
    THEN [st |-> Emit([st EXCEPT !.configs =
                           GcloudCreate(@, name, env.createActivates)],
                      "CreateConfiguration", "", name, TRUE),
          err |-> Nil]
    ELSE [st |-> Emit(st, "CreateConfiguration", "", name, FALSE),
          err |-> ErrCreate]

\* gcloud config configurations delete NAME --quiet
GcloudDelete(cs, name) == {c \in cs : c.Name # name}

\* The active configuration is deleted like any other.
DeleteConfiguration_NoActiveCheck(st, name, ok) ==
    IF ~ConfigurationExists(st.configs, name)
    THEN [st |-> st, err |-> ErrDoesNotExist]
    ELSE IF ok
    THEN [st |-> Emit([st EXCEPT !.configs = GcloudDelete(@, name)],
                      "DeleteConfiguration", "", name, TRUE),
          err |-> Nil]
    ELSE [st |-> Emit(st, "DeleteConfiguration", "", name, FALSE),
          err |-> ErrDelete]

DeleteConfiguration(st, name, ok) ==
    IF ~ConfigurationExists(st.configs, name)
    THEN [st |-> st, err |-> ErrDoesNotExist]
    ELSE LET activeConfig == GetActiveConfiguration(st.configs)
         IN  IF activeConfig.err # Nil
             THEN [st |-> st, err |-> activeConfig.err]
             ELSE IF activeConfig.Name = name
             THEN [st |-> st, err |-> ErrDeleteActive]
             ELSE IF ok
             THEN [st |-> Emit([st EXCEPT !.configs = GcloudDelete(@, name)],
                               "DeleteConfiguration", "", name, TRUE),
                   err |-> Nil]
             ELSE [st |-> Emit(st, "DeleteConfiguration", "", name, FALSE),
                   err |-> ErrDelete]

GetConfigurationInfo(cs, name) ==
    LET named == {c \in ListConfigurations(cs) : c.Name = name}
    IN  IF named = {}
        THEN [err |-> ErrInfoNotFound, config |-> <<>>]
        ELSE [err |-> Nil, config |-> CHOOSE c \in named : TRUE]

\* gcloud config set KEY VALUE --configuration TARGET
GcloudSet(cs, targetName, key, value) ==
    {IF c.Name = targetName THEN [c EXCEPT !.Properties[key] = value] ELSE c :
        c \in cs}

\* One `if source.Properties... != ""` block of copyConfigProperties, run
\* after the blocks before it (whose result is r) went through.
copyProperty(r, source, targetName, key, env) ==
    IF r.err # Nil \/ source.Properties[key] = ""
    THEN r
    ELSE IF env.setFail # key /\ ConfigurationExists(r.st.configs, targetName)
    THEN [st |-> Emit([r.st EXCEPT !.configs =
                           GcloudSet(@, targetName, key, source.Properties[key])],
                      "SetProperty", key, targetName, TRUE),
          err |-> Nil]
    ELSE [st |-> Emit(r.st, "SetProperty", key, targetName, FALSE),
          err |-> ErrCopyProperty[key]]

copyConfigProperties(st, source, targetName, env) ==
    copyProperty(
        copyProperty(
            copyProperty(
                copyProperty([st |-> st, err |-> Nil],
                             source, targetName, "Account", env),
                source, targetName, "Project", env),
            source, targetName, "Region", env),
        source, targetName, "Zone", env)

cleanupConfiguration(st, name, ok) ==
    LET d == DeleteConfiguration(st, name, ok)
    IN  IF d.err # Nil THEN [st |-> d.st, err |-> ErrCleanup] ELSE d

\* A failed copy returns without the cleanup of the target.
copyOrCleanup_NoCleanup(st, source, targetName, env) ==
    LET p == copyConfigProperties(st, source, targetName, env)
    IN  IF p.err # Nil
        THEN [st |-> p.st, err |-> ErrCopyProperties(p.err, FALSE)]
        ELSE p

\* types.go:209-215 and 243-249: copy the properties; when a copy fails,
\* delete the target again and return the copy error, with the cleanup
\* failure added when the delete failed too.
copyOrCleanup(st, source, targetName, env) ==
    LET p == copyConfigProperties(st, source, targetName, env)
    IN  IF p.err # Nil
        THEN LET c == cleanupConfiguration(p.st, targetName, env.delete)
             IN  [st |-> c.st, err |-> ErrCopyProperties(p.err, c.err # Nil)]
        ELSE p

CloneConfiguration(st, sourceName, targetName, env) ==
    IF ~ConfigurationExists(st.configs, sourceName)
    THEN [st |-> st, err |-> ErrSourceMissing]
    ELSE IF ConfigurationExists(st.configs, targetName)
    THEN [st |-> st, err |-> ErrTargetExists]
    ELSE LET sourceConfig == GetConfigurationInfo(st.configs, sourceName)
         IN  IF sourceConfig.err # Nil
             THEN [st |-> st, err |-> sourceConfig.err]
             ELSE LET c == CreateConfiguration(st, targetName, env)
                  IN  IF c.err # Nil
                      THEN c
                      ELSE copyOrCleanup(c.st, sourceConfig.config, targetName, env)

\* The old configuration is deleted before the new one is activated.
activateThenDelete_DeleteFirst(st, oldConfig, oldName, newName, env) ==
    LET d == DeleteConfiguration(st, oldName, env.delete)
    IN  IF d.err # Nil
        THEN [st |-> d.st, err |-> ErrDeleteOld(d.err)]
        ELSE IF oldConfig.IsActive
        THEN LET a == ActivateConfiguration(d.st, newName, env.act)
             IN  IF a.err # Nil
                 THEN [st |-> a.st, err |-> ErrRenameActivate(FALSE)]
                 ELSE a
        ELSE d

\* A failed delete of the old configuration undoes the rename: the old
\* configuration is made active again and the new one is removed.
activateThenDelete_Rollback(st, oldConfig, oldName, newName, env) ==
    LET a == IF oldConfig.IsActive
             THEN ActivateConfiguration(st, newName, env.act)
             ELSE [st |-> st, err |-> Nil]
    IN  IF a.err # Nil
        THEN LET c == cleanupConfiguration(a.st, newName, env.delete)
             IN  [st |-> c.st, err |-> ErrRenameActivate(c.err # Nil)]
        ELSE LET d == DeleteConfiguration(a.st, oldName, env.delete)
             IN  IF d.err # Nil
                 THEN LET back == IF oldConfig.IsActive
                                  THEN GcloudActivate(d.st.configs, oldName)
                                  ELSE d.st.configs
                      IN  [st |-> Emit([d.st EXCEPT !.configs =
                                            GcloudDelete(back, newName)],
                                       "DeleteConfiguration", "", newName, TRUE),
                           err |-> ErrDeleteOld(d.err)]
                 ELSE d

\* types.go:251-267: when the old configuration was active, activate the
\* new one (a failure deletes the new one again); then delete the old one
\* (a failure is returned, nothing is undone).
activateThenDelete(st, oldConfig, oldName, newName, env) ==
    LET a == IF oldConfig.IsActive
             THEN ActivateConfiguration(st, newName, env.act)
             ELSE [st |-> st, err |-> Nil]
    IN  IF a.err # Nil
        THEN LET c == cleanupConfiguration(a.st, newName, env.delete)
             IN  [st |-> c.st, err |-> ErrRenameActivate(c.err # Nil)]
        ELSE LET d == DeleteConfiguration(a.st, oldName, env.delete)
             IN  IF d.err # Nil
                 THEN [st |-> d.st, err |-> ErrDeleteOld(d.err)]
                 ELSE d

RenameConfiguration(st, oldName, newName, env) ==
    IF ~ConfigurationExists(st.configs, oldName)
    THEN [st |-> st, err |-> ErrDoesNotExist]
    ELSE IF ConfigurationExists(st.configs, newName)
    THEN [st |-> st, err |-> ErrAlreadyExists]
    ELSE LET oldConfig == GetConfigurationInfo(st.configs, oldName)
         IN  IF oldConfig.err # Nil
             THEN [st |-> st, err |-> oldConfig.err]
             ELSE LET c == CreateConfiguration(st, newName, env)
                  IN  IF c.err # Nil
                      THEN c
                      ELSE LET p == copyOrCleanup(c.st, oldConfig.config,
                                                  newName, env)
                           IN  IF p.err # Nil
                               THEN p
                               ELSE activateThenDelete(p.st, oldConfig.config,
                                                       oldName, newName, env)

\* gcloudctx clone SOURCE TARGET [--activate]
runClone(st, args, cloneActivateFlag, env) ==
    LET sourceName == args[1]
        targetName == args[2]
        v == ValidateConfigurationName(targetName)
    IN  IF v # Nil
        THEN [st |-> PrintError(st, v), err |-> v]
        ELSE LET c == CloneConfiguration(st, sourceName, targetName, env)
             IN  IF c.err # Nil
                 THEN [st |-> PrintError(c.st, c.err), err |-> c.err]
                 ELSE LET s1 == PrintSuccess(c.st, "cloned configuration",
                                             targetName)
                      IN  IF cloneActivateFlag
                          THEN LET a == ActivateConfiguration(s1, targetName,
                                                              env.act)
                               IN  IF a.err # Nil
                                   THEN [st |-> PrintError(a.st, a.err),
                                         err |-> a.err]
                                   ELSE [st |-> PrintSuccess(a.st,
                                                    "activated configuration",
                                                    targetName),
                                         err |-> Nil]
                          ELSE [st |-> s1, err |-> Nil]

\* gcloudctx rename OLD NEW, with gcloud installed.
runRename(st, args, env) ==
    LET r == RenameConfiguration(st, args[1], args[2], env)
    IN  IF r.err # Nil
        THEN [st |-> PrintError(r.st, r.err), err |-> r.err]
        ELSE [st |-> PrintSuccess(r.st, "renamed configuration", args[2]),
              err |-> Nil]

\* io.EOF, the error of a read that meets the end of the input.
ErrEOF == "EOF"

\* bufio.Reader.ReadString(delim): the input up to and including the first
\* delim; without a delim, all of the input and io.EOF.
ReadString(input, delim) ==
    IF \E i \in 1..Len(input) : input[i] = delim
    THEN [err |-> Nil,
          line |-> SubSeq(input, 1,
                          CHOOSE i \in 1..Len(input) :
                              /\ input[i] = delim
                              /\ \A j \in 1..(i - 1) : input[j] # delim)]
    ELSE [err |-> ErrEOF, line |-> input]

\* strings.ToLower, on the letters an answer is typed with.
ToLower(s) ==
    [i \in 1..Len(s) |->
        IF s[i] = "Y" THEN "y"
        ELSE IF s[i] = "E" THEN "e"
        ELSE IF s[i] = "S" THEN "s"
        ELSE IF s[i] = "N" THEN "n"
        ELSE IF s[i] = "A" THEN "a"
        ELSE IF s[i] = "Z" THEN "z"
        ELSE s[i]]

\* gcloudctx delete NAME [--force]; stdin is what the standard input
\* holds. Without --force the answer to the prompt is read: a failed read
\* is returned as it is, with nothing printed and nothing deleted; an answer
\* other than y or yes cancels. (The prompt itself is not recorded.)
runDelete(st, args, forceFlag, stdin, env) ==
    LET configName == args[1]
        read == ReadString(stdin, "\n")
        response == ToLower(TrimSpace(read.line))
        d == DeleteConfiguration(st, configName, env.delete)
    IN  IF ~forceFlag /\ read.err # Nil
        THEN [st |-> st, err |-> read.err]
        ELSE IF ~forceFlag /\ response # <<"y">> /\ response # <<"y", "e", "s">>
        THEN [st |-> Emit(st, "Println", "Deletion canceled", <<>>, TRUE),
              err |-> Nil]
        ELSE IF d.err # Nil
        THEN [st |-> PrintError(d.st, d.err), err |-> d.err]
        ELSE [st |-> PrintSuccess(d.st, "deleted configuration", configName),
              err |-> Nil]

\* ------------------------------------------------------ create, import
\* gcloudctx create NAME [--activate], with gcloud installed.
\* create --activate records the configuration it leaves in history.
runCreate_SaveHistory(st, args, activateFlag, env) ==
    LET configName == args[1]
        c == CreateConfiguration(st, configName, env)
    IN  IF c.err # Nil
        THEN [st |-> PrintError(c.st, c.err), err |-> c.err]
        ELSE LET s1 == PrintSuccess(c.st, "created configuration", configName)
             IN  IF activateFlag
                 THEN LET h == SavePreviousConfig(s1,
                                   GetActiveConfiguration(st.configs).Name, "ok")
                          a == ActivateConfiguration(h.st, configName, env.act)
                      IN  IF a.err # Nil
                          THEN [st |-> PrintError(a.st, a.err), err |-> a.err]
                          ELSE [st |-> PrintSuccess(a.st,
                                           "activated configuration", configName),
                                err |-> Nil]
                 ELSE [st |-> s1, err |-> Nil]

runCreate(st, args, activateFlag, env) ==
    LET configName == args[1]
        c == CreateConfiguration(st, configName, env)
    IN  IF c.err # Nil
        THEN [st |-> PrintError(c.st, c.err), err |-> c.err]
        ELSE LET s1 == PrintSuccess(c.st, "created configuration", configName)
             IN  IF activateFlag
                 THEN LET a == ActivateConfiguration(s1, configName, env.act)
                      IN  IF a.err # Nil
                          THEN [st |-> PrintError(a.st, a.err), err |-> a.err]
                          ELSE [st |-> PrintSuccess(a.st,
                                           "activated configuration", configName),
                                err |-> Nil]
                 ELSE [st |-> s1, err |-> Nil]

\* One `if config.X != ""` block of setImportedProperties, run after the
\* blocks before it (whose result is r) went through.
setImportedProperty(r, configName, config, key, env) ==
    IF r.err # Nil \/ config[key] = ""
    THEN r
    ELSE IF env.setFail # key /\ ConfigurationExists(r.st.configs, configName)
    THEN [st |-> Emit([r.st EXCEPT !.configs =
                           GcloudSet(@, configName, key, config[key])],
                      "SetProperty", key, configName, TRUE),
          err |-> Nil]
    ELSE [st |-> Emit(r.st, "SetProperty", key, configName, FALSE),
          err |-> ErrSetProperty[key]]

setImportedProperties(st, configName, config, env) ==
    setImportedProperty(
        setImportedProperty(
            setImportedProperty(
                setImportedProperty([st |-> st, err |-> Nil],
                                    configName, config, "Account", env),
                configName, config, "Project", env),
            configName, config, "Region", env),
        configName, config, "Zone", env)

\* The name in the file wins over --name.
importName_FileFirst(importConfig, importNameFlag) ==
    IF importConfig.Name # <<>> THEN importConfig.Name ELSE importNameFlag

\* import.go:78-82: --name wins over the name in the file.
importName(importConfig, importNameFlag) ==
    IF importNameFlag # <<>> THEN importNameFlag ELSE importConfig.Name

\* An existing target is deleted whether or not --overwrite was given.
importMakeRoom_AlwaysOverwrite(st, configName, importOverwriteFlag, env) ==
    IF ConfigurationExists(st.configs, configName)
    THEN LET d == DeleteConfiguration(st, configName, env.delete)
         IN  IF d.err # Nil
             THEN [st |-> PrintError(d.st,
                              "failed to delete existing configuration"),
                   err |-> d.err]
             ELSE d
    ELSE [st |-> st, err |-> Nil]

\* import.go:95-107: an existing target is refused, or deleted first with
\* --overwrite.
importMakeRoom(st, configName, importOverwriteFlag, env) ==
    IF ConfigurationExists(st.configs, configName)
    THEN IF ~importOverwriteFlag
         THEN [st |-> PrintError(st, ErrImportExists), err |-> ErrImportExists]
         ELSE LET d == DeleteConfiguration(st, configName, env.delete)
              IN  IF d.err # Nil
                  THEN [st |-> PrintError(d.st,
                                   "failed to delete existing configuration"),
                        err |-> d.err]
                  ELSE d
    ELSE [st |-> st, err |-> Nil]

\* When the cleanup fails too, its error is the one returned.
importSetOrCleanup_CleanupErrorWins(st, configName, importConfig, env) ==
    LET p == setImportedProperties(st, configName, importConfig, env)
    IN  IF p.err # Nil
        THEN LET d == DeleteConfiguration(p.st, configName, env.cleanup)
             IN  IF d.err # Nil
                 THEN [st |-> PrintError(PrintWarning(d.st,
                                  "failed to cleanup configuration"), d.err),
                       err |-> d.err]
                 ELSE [st |-> PrintError(d.st, p.err), err |-> p.err]
        ELSE p

\* A failed set leaves the new configuration where it is.
importSetOrCleanup_NoCleanup(st, configName, importConfig, env) ==
    LET p == setImportedProperties(st, configName, importConfig, env)
    IN  IF p.err # Nil
        THEN [st |-> PrintError(p.st, p.err), err |-> p.err]
        ELSE p

\* import.go:115-124: the properties are set on the new configuration; a
\* failure deletes it again, warns when that delete fails too, and is
\* returned as it is.
importSetOrCleanup(st, configName, importConfig, env) ==
    LET p == setImportedProperties(st, configName, importConfig, env)
    IN  IF p.err # Nil
        THEN LET d == DeleteConfiguration(p.st, configName, env.cleanup)
                 s1 == IF d.err # Nil
                       THEN PrintWarning(d.st, "failed to cleanup configuration")
                       ELSE d.st
             IN  [st |-> PrintError(s1, p.err), err |-> p.err]
        ELSE p

\* import.go:126-137
importFinish(st, configName, importActivateFlag, env) ==
    LET s1 == PrintSuccess(st, "imported configuration", configName)
    IN  IF importActivateFlag
        THEN LET a == ActivateConfiguration(s1, configName, env.act)
             IN  IF a.err # Nil
                 THEN [st |-> PrintError(a.st, a.err), err |-> a.err]
                 ELSE [st |-> PrintSuccess(a.st, "activated configuration",
                                           configName),
                       err |-> Nil]
        ELSE [st |-> s1, err |-> Nil]

\* gcloudctx import FILE [--name N] [--overwrite] [--activate]. `file` is
\* what reading and parsing FILE gives: read is "noread", "noparse" or
\* "ok", and config is the ExportConfig then.
runImport(st, file, importNameFlag, importOverwriteFlag, importActivateFlag, env) ==
    IF file.read = "noread"
    THEN [st |-> PrintError(st, ErrReadFile), err |-> ErrReadFile]
    ELSE IF file.read = "noparse"
    THEN [st |-> PrintError(st, ErrParseFile), err |-> ErrParseFile]
    ELSE LET importConfig == file.config
             configName == importName(importConfig, importNameFlag)
         IN  IF configName = <<>>
             THEN [st |-> PrintError(st, ErrMissingName), err |-> ErrMissingName]
             ELSE LET v == ValidateConfigurationName(configName)
                  IN  IF v # Nil
                      THEN [st |-> PrintError(st, v), err |-> v]
                      ELSE LET m == importMakeRoom(st, configName,
                                                   importOverwriteFlag, env)
                           IN  IF m.err # Nil
                               THEN m
                               ELSE LET c == CreateConfiguration(m.st, configName, env)
                                    IN  IF c.err # Nil
                                        THEN [st |-> PrintError(c.st, c.err),
                                              err |-> c.err]
                                        ELSE LET p == importSetOrCleanup(
                                                          c.st, configName,
                                                          importConfig, env)
                                             IN  IF p.err # Nil
                                                 THEN p
                                                 ELSE importFinish(
                                                          p.st, configName,
                                                          importActivateFlag, env)

\* ---------------------------------------------------------------- export
ErrUnsupportedFormat == "unsupported format"

ErrWriteExport == "failed to write file"

\* gcloudctx export [NAME] [--format F] [--output FILE]: the configuration
\* named, or the active one, is read and written out as an ExportConfig;
\* env.write says whether the output file could be written.
runExport(st, args, exportFormatFlag, exportOutputFlag, env) ==
    LET currentConfig == GetActiveConfiguration(st.configs)
        configName == IF Len(args) = 0 THEN currentConfig.Name ELSE args[1]
        info == GetConfigurationInfo(st.configs, configName)
    IN  IF Len(args) = 0 /\ currentConfig.err # Nil
        THEN [st |-> PrintError(st, currentConfig.err), err |-> currentConfig.err]
        ELSE IF info.err # Nil
        THEN [st |-> PrintError(st, info.err), err |-> info.err]
        ELSE IF exportFormatFlag \notin {"yaml", "yml", "json"}
        THEN [st |-> PrintError(st, ErrUnsupportedFormat),
              err |-> ErrUnsupportedFormat]
        ELSE LET exportConfig == [Name |-> info.config.Name,
                                  Account |-> info.config.Properties.Account,
                                  Project |-> info.config.Properties.Project,
                                  Region |-> info.config.Properties.Region,
                                  Zone |-> info.config.Properties.Zone]
             IN  IF ~exportOutputFlag
                 THEN [st |-> Emit(st, "PrintExport", exportFormatFlag,
                                   exportConfig, TRUE),
                       err |-> Nil]
                 ELSE IF ~env.write
                 THEN [st |-> PrintError(Emit(st, "WriteExport", exportFormatFlag,
                                              exportConfig, FALSE),
                                         ErrWriteExport),
                       err |-> ErrWriteExport]
                 ELSE [st |-> PrintSuccess(Emit(st, "WriteExport", exportFormatFlag,
                                                exportConfig, TRUE),
                                           "exported configuration", configName),
                       err |-> Nil]

\* ---------------------------------------------------------------- state
VARIABLES
    configs,    \* the gcloud store: a set of [Name, IsActive]
    history,    \* ~/.gcloudctx_previous
    markers,    \* the .gcloudctx file of every directory
    last,       \* the last invocation: command, inputs, state before, result
    ghost,      \* bookkeeping about the switches made so far
    procs       \* the invocations that run at the same time, where there are

vars == <<configs, history, markers, last, ghost, procs>>

\* One invocation at a time: no invocation is under way between two steps.
NoProcs == <<>>

Store(names, activeName) ==
    {[Name |-> n, IsActive |-> (n = activeName)] : n \in names}

\* Stores with at most one active configuration (<<>> names none).
InitStores == {Store(ProfileNames, a) : a \in ProfileNames \cup {<<>>}}

InitHistories ==
    {NoFile, File(<<" ", "\n">>), File(<<"b", "\n">>), File(MissingName)}

InitMarkers == {NoFile, File(<<"a", "\n">>)}

St == [configs |-> configs, history |-> history, markers |-> markers, log |-> <<>>]

ActiveName(cs) == GetActiveConfiguration(cs).Name

HasEvent(log, ev, ok) == \E i \in 1..Len(log) : log[i].ev = ev /\ log[i].ok = ok

Attempted(log, ev) == \E i \in 1..Len(log) : log[i].ev = ev

\* from: the configuration that was active immediately before the last
\* switch whose activation succeeded; inSync: that switch wrote history and
\* no invocation has attempted a history write since; writeFailed: some
\* history write has failed.
NextGhost(g, preConfigs, log) ==
    LET activated == HasEvent(log, "ActivateConfiguration", TRUE)
        saveOk == HasEvent(log, "SavePreviousConfig", TRUE)
        saveTried == Attempted(log, "SavePreviousConfig")
    IN  [from |-> IF activated THEN File(ActiveName(preConfigs)) ELSE g.from,
         inSync |-> IF activated THEN saveOk
                    ELSE IF saveTried THEN FALSE ELSE g.inSync,
         writeFailed |-> g.writeFailed \/ HasEvent(log, "SavePreviousConfig", FALSE)]

\* One invocation of the tool: the handler's result becomes the state.
\* `track` says whether the bookkeeping of `ghost` is kept up to date.
Commit(op, args, cwd, flags, r, track) ==
    /\ configs' = r.st.configs
    /\ history' = r.st.history
    /\ markers' = r.st.markers
    /\ last' = [op |-> op, args |-> args, cwd |-> cwd, flags |-> flags,
                pre |-> [configs |-> configs, history |-> history],
                err |-> r.err, log |-> r.st.log]
    /\ ghost' = IF track THEN NextGhost(ghost, configs, r.st.log) ELSE ghost
    /\ UNCHANGED procs

Init ==
    /\ configs \in InitStores
    /\ history \in InitHistories
    /\ markers \in [Dirs -> InitMarkers]
    /\ last = [op |-> "init", args |-> <<>>, cwd |-> <<>>, flags |-> {},
               pre |-> [configs |-> configs, history |-> history],
               err |-> Nil, log |-> <<>>]
    /\ ghost = [from |-> NoFile, inSync |-> FALSE, writeFailed |-> FALSE]
    /\ procs = NoProcs

RootArgs == {<<>>} \cup {<<n>> : n \in ProfileNames \cup {MissingName, Dash, <<>>}}

UseArgs == {<<>>} \cup {<<n>> : n \in {Str1("a"), MissingName, BadName}}

Env(hist, act, sync, marker) ==
    [hist |-> hist, act |-> act, sync |-> sync, marker |-> marker]

UseFlags == {{}, {"unset"}, {"switch"}}

\* gcloudctx [name | -] [--sync-adc]
RootStep(track) ==
    \E args \in RootArgs, syncADCFlag \in BOOLEAN, hist \in WriteModes,
       act \in BOOLEAN :
        \E sync \in (IF syncADCFlag THEN BOOLEAN ELSE {TRUE}) :
            Commit("root", args, <<>>, IF syncADCFlag THEN {"sync-adc"} ELSE {},
                   runRoot(St, args, syncADCFlag, Env(hist, act, sync, "ok")),
                   track)

\* gcloudctx auto
AutoStep(track) ==
    \E cwd \in Dirs, hist \in WriteModes, act \in BOOLEAN :
        Commit("auto", <<>>, cwd, {},
               runAuto(St, cwd, Env(hist, act, TRUE, "ok")), track)

\* gcloudctx use [name] [--unset] [--switch]
UseStep(track) ==
    \E flags \in UseFlags, cwd \in Dirs, marker \in {"ok", "noopen"} :
        \E args \in (IF "unset" \in flags THEN {<<>>} ELSE UseArgs),
           hist \in (IF "switch" \in flags THEN {"ok", "noopen"} ELSE {"ok"}),
           act \in (IF "switch" \in flags THEN BOOLEAN ELSE {TRUE}) :
            Commit("use", args, cwd, flags,
                   runUse(St, args, cwd, "unset" \in flags, "switch" \in flags,
                          Env(hist, act, TRUE, marker)),
                   track)

RunRoot == RootStep(FALSE)

RunAuto == AutoStep(FALSE)

RunUse == UseStep(FALSE)

Next == RunRoot \/ RunAuto \/ RunUse

Spec == Init /\ [][Next]_vars

\* The switch invocations (by name, "-", auto) with the bookkeeping of
\* `ghost` switched on, over directory trees with at most one marker file.
TrackedRunRoot == RootStep(TRUE)

TrackedRunAuto == AutoStep(TRUE)

InitTracked ==
    /\ Init
    /\ Cardinality({d \in Dirs : markers[d].exists}) <= 1

NextTracked == TrackedRunRoot \/ TrackedRunAuto

SpecTracked == InitTracked /\ [][NextTracked]_vars

\* ----------------------------------------------- binding lookup on trees
\* The directory chain / , /x , /x/x ... of depth FindDepth, each directory
\* with no marker file or one with any of these contents: a name with
\* white space around it, a name the store does not hold, only white
\* space, nothing.
FindDirs == UNION {[1..n -> {"x"}] : n \in 0..FindDepth}

FindMarkers ==
    {NoFile, File(<<" ", "a", "\n">>), File(MissingName), File(<<" ", "\n">>),
     File(<<>>)}

InitFind ==
    /\ configs \in {Store(ProfileNames, Str1("c")), Store(ProfileNames, <<>>)}
    /\ history = NoFile
    /\ markers \in [FindDirs -> FindMarkers]
    /\ last = [op |-> "init", args |-> <<>>, cwd |-> <<>>, flags |-> {},
               pre |-> [configs |-> configs, history |-> history],
               err |-> Nil, log |-> <<>>]
    /\ ghost = [from |-> NoFile, inSync |-> FALSE, writeFailed |-> FALSE]
    /\ procs = NoProcs

\* local.FindLocalConfig() called from the working directory cwd; its
\* three results and the directories it looked at are kept in last.found.
RunFindLocalConfig ==
    \E cwd \in FindDirs :
        /\ last' = [op |-> "find", args |-> <<>>, cwd |-> cwd, flags |-> {},
                    pre |-> [configs |-> configs, history |-> history],
                    err |-> FindLocalConfig(markers, cwd).err, log |-> <<>>,
                    found |-> FindLocalConfig(markers, cwd)]
        /\ UNCHANGED <<configs, history, markers, ghost, procs>>

\* gcloudctx auto, from any directory of the tree.
RunAutoInTree ==
    \E cwd \in FindDirs, hist \in WriteModes, act \in BOOLEAN :
        Commit("auto", <<>>, cwd, {},
               runAuto(St, cwd, Env(hist, act, TRUE, "ok")), FALSE)

NextFind == RunFindLocalConfig \/ RunAutoInTree

SpecFind == InitFind /\ [][NextFind]_vars

\* ------------------------------------------- clone, rename and delete
FullProperties ==
    [Account |-> "alice", Project |-> "p1", DisableUsageReport |-> TRUE,
     Region |-> "", Zone |-> "z1"]

\* The store {a, b}: a with properties (no region), b without any.
OpsStore(activeName) ==
    {[Name |-> Str1("a"), IsActive |-> (Str1("a") = activeName),
      Properties |-> FullProperties],
     [Name |-> Str1("b"), IsActive |-> (Str1("b") = activeName),
      Properties |-> EmptyProperties]}

InitOps ==
    /\ configs \in {OpsStore(n) : n \in {Str1("a"), Str1("b"), <<>>}}
    /\ history = NoFile
    /\ markers = [d \in Dirs |-> NoFile]
    /\ last = [op |-> "init", args |-> <<>>, cwd |-> <<>>, flags |-> {},
               pre |-> [configs |-> configs, history |-> history],
               err |-> Nil, log |-> <<>>]
    /\ ghost = [from |-> NoFile, inSync |-> FALSE, writeFailed |-> FALSE]
    /\ procs = NoProcs

\* What gcloud does with the calls of one invocation: whether create
\* works and whether it activates what it created, which `config set`
\* fails (none, the first or the last), whether activate and delete work.
OpsEnv(create, createActivates, setFail, act, delete) ==
    [create |-> create, createActivates |-> createActivates,
     setFail |-> setFail, act |-> act, delete |-> delete]

SetFails == {"none", "Account", "Zone"}

\* gcloudctx clone SOURCE TARGET [--activate]
RunClone ==
    \E sourceName \in ProfileNames, targetName \in ProfileNames \cup {BadName} :
      LET valid == /\ sourceName \in {c.Name : c \in configs}
                   /\ targetName \notin {c.Name : c \in configs}
                   /\ targetName # BadName
      IN  \E create \in (IF valid THEN BOOLEAN ELSE {TRUE}) :
            \E createActivates \in (IF valid /\ create THEN BOOLEAN ELSE {FALSE}),
               setFail \in (IF valid /\ create THEN SetFails ELSE {"none"}) :
              \E delete \in (IF setFail # "none" THEN BOOLEAN ELSE {TRUE}),
                 cloneActivateFlag \in (IF valid /\ create /\ setFail = "none"
                                        THEN BOOLEAN ELSE {FALSE}) :
                \E act \in (IF cloneActivateFlag THEN BOOLEAN ELSE {TRUE}) :
                  Commit("clone", <<sourceName, targetName>>, <<>>,
                         IF cloneActivateFlag THEN {"activate"} ELSE {},
                         runClone(St, <<sourceName, targetName>>, cloneActivateFlag,
                                  OpsEnv(create, createActivates, setFail, act,
                                         delete)),
                         FALSE)

\* gcloudctx rename OLD NEW
RunRename ==
    \E oldName \in ProfileNames, newName \in ProfileNames :
      LET valid == /\ oldName \in {c.Name : c \in configs}
                   /\ newName \notin {c.Name : c \in configs}
      IN  \E create \in (IF valid THEN BOOLEAN ELSE {TRUE}) :
            \E createActivates \in (IF valid /\ create THEN BOOLEAN ELSE {FALSE}),
               setFail \in (IF valid /\ create THEN SetFails ELSE {"none"}),
               delete \in (IF valid /\ create THEN BOOLEAN ELSE {TRUE}) :
              \E act \in (IF valid /\ create /\ setFail = "none"
                          THEN BOOLEAN ELSE {TRUE}) :
                Commit("rename", <<oldName, newName>>, <<>>, {},
                       runRename(St, <<oldName, newName>>,
                                 OpsEnv(create, createActivates, setFail, act,
                                        delete)),
                       FALSE)

\* What may be on the standard input when delete asks: nothing, y without
\* a newline, and lines with y, YES, n and nothing on them.
DeleteAnswers ==
    {<<>>, <<"y">>, <<"y", "\n">>, <<" ", "Y", "E", "S", "\r", "\n">>,
     <<"n", "\n">>, <<"\n">>}

\* gcloudctx delete NAME [--force]; last.args holds the name and the
\* standard input.
RunDelete ==
    \E name \in ProfileNames, forceFlag \in BOOLEAN :
      \E stdin \in (IF forceFlag THEN {<<>>} ELSE DeleteAnswers) :
        LET reaches == forceFlag \/ stdin \in {<<"y", "\n">>,
                                            <<" ", "Y", "E", "S", "\r", "\n">>}
        IN  \E delete \in (IF reaches THEN BOOLEAN ELSE {TRUE}) :
              Commit("delete", <<name, stdin>>, <<>>,
                     IF forceFlag THEN {"force"} ELSE {},
                     runDelete(St, <<name>>, forceFlag, stdin,
                               OpsEnv(TRUE, FALSE, "none", TRUE, delete)),
                     FALSE)

NextOps == RunClone \/ RunRename \/ RunDelete

SpecOps == InitOps /\ [][NextOps]_vars

\* ------------------------------------------------------------------ import
\* The ExportConfig a file holds: a name and the four properties.
ExportConfig(name, account, zone) ==
    [Name |-> name, Account |-> account, Project |-> "", Region |-> "",
     Zone |-> zone]

\* Files to import: unreadable, unparsable, and readable ones with no
\* name and with an invalid name, and with the name of a configuration the
\* store holds and with a new name, these two without properties and with
\* an account and a zone.
ImportFiles ==
    {[read |-> r, config |-> ExportConfig(<<>>, "", "")] :
        r \in {"noread", "noparse"}}
    \cup {[read |-> "ok", config |-> ExportConfig(n, "", "")] :
            n \in {<<>>, BadName}}
    \cup {[read |-> "ok", config |-> ExportConfig(n, pr[1], pr[2])] :
            n \in {Str1("a"), Str1("c")},
            pr \in {<<"", "">>, <<"bob", "z2">>}}

\* Values of --name: not given, a held name, an invalid name.
ImportNameFlags == {<<>>, Str1("b"), BadName}

ImportEnv(create, createActivates, setFail, act, delete, cleanup) ==
    [create |-> create, createActivates |-> createActivates,
     setFail |-> setFail, act |-> act, delete |-> delete, cleanup |-> cleanup]

\* gcloudctx import FILE [--name N] [--overwrite] [--activate], run for as
\* long as c is a name the store does not hold.
RunImport ==
    /\ Str1("c") \notin {c.Name : c \in configs}
    /\ \E file \in ImportFiles, importNameFlag \in ImportNameFlags :
      LET configName == IF importNameFlag # <<>> THEN importNameFlag
                        ELSE file.config.Name
          parsed == file.read = "ok"
          exists == configName \in {c.Name : c \in configs}
      IN  \E importOverwriteFlag \in (IF parsed THEN BOOLEAN ELSE {FALSE}),
             importActivateFlag \in (IF parsed THEN BOOLEAN ELSE {FALSE}) :
            LET valid == /\ parsed
                         /\ configName \in ProfileNames
                         /\ exists => importOverwriteFlag
            IN  \E delete \in (IF valid /\ exists THEN BOOLEAN ELSE {TRUE}),
                   create \in (IF valid THEN BOOLEAN ELSE {TRUE}) :
                  \E createActivates \in (IF valid /\ create
                                          THEN BOOLEAN ELSE {FALSE}),
                     setFail \in (IF valid /\ create /\ file.config.Account # ""
                                  THEN SetFails ELSE {"none"}) :
                    \E cleanup \in (IF setFail # "none" THEN BOOLEAN ELSE {TRUE}),
                       act \in (IF valid /\ create /\ setFail = "none"
                                   /\ importActivateFlag
                                THEN BOOLEAN ELSE {TRUE}) :
                      Commit("import", <<file, importNameFlag>>, <<>>,
                             (IF importOverwriteFlag THEN {"overwrite"} ELSE {})
                             \cup (IF importActivateFlag THEN {"activate"} ELSE {}),
                             runImport(St, file, importNameFlag,
                                       importOverwriteFlag, importActivateFlag,
                                       ImportEnv(create, createActivates, setFail,
                                                 act, delete, cleanup)),
                             FALSE)

NextImport == RunImport

SpecImport == InitOps /\ [][NextImport]_vars

\* ------------------------------------- names and the history round trip
InputChars == {"a", "Z", "9", "_", "-", " ", "\n", "@"}

ShortNames == UNION {[1..n -> InputChars] : n \in 0..NameLen}

Repeat(c, n) == [i \in 1..n |-> c]

\* Names around the length limit: one character less, exactly the limit,
\* one more; starting with a letter, a digit, an underscore; continued
\* with a letter, a hyphen, a character that is not allowed.
LongNames ==
    {Str1(h) \o Repeat(t, n - 1) :
        h \in {"a", "9", "_"}, t \in {"b", "-", "@"},
        n \in {MaxConfigNameLength - 1, MaxConfigNameLength,
               MaxConfigNameLength + 1}}

\* The name under test is drawn at the start; nothing was saved before.
InitNames ==
    /\ configs = Store(ProfileNames, Str1("a"))
    /\ history = NoFile
    /\ markers = [d \in Dirs |-> NoFile]
    /\ \E name \in ShortNames \cup LongNames :
          last = [op |-> "input", args |-> <<name>>, cwd |-> <<>>, flags |-> {},
                  pre |-> [configs |-> configs, history |-> history],
                  err |-> Nil, log |-> <<>>]
    /\ ghost = [from |-> NoFile, inSync |-> FALSE, writeFailed |-> FALSE]
    /\ procs = NoProcs

\* gcloud.ValidateConfigurationName(name)
RunValidate ==
    Commit("validate", last.args, <<>>, {},
           [st |-> St, err |-> ValidateConfigurationName(last.args[1])], FALSE)

\* history.GetPreviousConfig(); both results are kept in last.found.
RunGetPrevious ==
    /\ last' = [op |-> "get", args |-> last.args, cwd |-> <<>>, flags |-> {},
                pre |-> [configs |-> configs, history |-> history],
                err |-> GetPreviousConfig(history).err, log |-> <<>>,
                found |-> GetPreviousConfig(history)]
    /\ UNCHANGED <<configs, history, markers, ghost, procs>>

\* history.SavePreviousConfig(name) followed by history.GetPreviousConfig()
RunSaveThenGet ==
    \E mode \in WriteModes :
      LET s == SavePreviousConfig(St, last.args[1], mode)
      IN  /\ history' = s.st.history
          /\ last' = [op |-> "save-get", args |-> last.args, cwd |-> <<>>,
                      flags |-> {},
                      pre |-> [configs |-> configs, history |-> history],
                      err |-> s.err, log |-> s.st.log,
                      found |-> GetPreviousConfig(s.st.history)]
          /\ UNCHANGED <<configs, markers, ghost, procs>>

NextNames == RunValidate \/ RunGetPrevious \/ RunSaveThenGet

SpecNames == InitNames /\ [][NextNames]_vars

\* ------------------------------------------------ interactive selection
FzfRuns == {"missing", "canceled", "failed", "empty", "picked"}

\* gcloudctx [-i] [name] [--sync-adc] with a terminal: last.flags holds the
\* flags and what fzf did, last.args the arguments and then the picked name.
RunInteractive ==
    \E interactiveFlag \in BOOLEAN, syncADCFlag \in BOOLEAN, run \in FzfRuns,
       args \in {<<>>, <<Str1("b")>>} :
        \E pick \in (IF run = "picked" THEN {c.Name : c \in configs} ELSE {<<>>}),
           hist \in (IF run = "picked" THEN {"ok", "noopen"} ELSE {"ok"}),
           act \in (IF run = "picked" THEN BOOLEAN ELSE {TRUE}) :
            /\ run = "picked" => configs # {}
            /\ Commit("interactive", args \o <<pick>>, <<>>,
                      {run} \cup (IF interactiveFlag THEN {"interactive"} ELSE {})
                            \cup (IF syncADCFlag THEN {"sync-adc"} ELSE {}),
                      runRootInteractive(St, args, interactiveFlag, syncADCFlag,
                          Env(hist, act, TRUE, "ok")
                          @@ [fzf |-> [run |-> run, pick |-> pick]]),
                      FALSE)

NextInteractive == RunInteractive

SpecInteractive == Init /\ [][NextInteractive]_vars

\* ------------------------------------- writing and removing a marker
\* Names written to a marker file: a name, the same with a space before
\* it, and a blank.
WriteNames == {Str1("a"), <<" ", "a">>, Str1(" ")}

\* local.WriteLocalConfig(dir, name) followed by a lookup started at dir,
\* whose results are kept in last.found; last.flags holds what the
\* filesystem did with the write.
RunWriteLocalConfig ==
    \E dir \in FindDirs, name \in WriteNames, mode \in WriteModes :
      LET w == WriteLocalConfig(St, dir, name, mode)
      IN  /\ markers' = w.st.markers
          /\ last' = [op |-> "write", args |-> <<name>>, cwd |-> dir,
                      flags |-> {mode},
                      pre |-> [configs |-> configs, history |-> history,
                               markers |-> markers],
                      err |-> w.err, log |-> w.st.log,
                      found |-> findLocalConfigInPath(w.st.markers, dir)]
          /\ UNCHANGED <<configs, history, ghost, procs>>

\* local.RemoveLocalConfig(dir) followed by a lookup started at dir.
RunRemoveLocalConfig ==
    \E dir \in FindDirs, mode \in {"ok", "fail"} :
      LET r == RemoveLocalConfig(St, dir, mode)
      IN  /\ markers' = r.st.markers
          /\ last' = [op |-> "remove", args |-> <<>>, cwd |-> dir,
                      flags |-> {mode},
                      pre |-> [configs |-> configs, history |-> history,
                               markers |-> markers],
                      err |-> r.err, log |-> r.st.log,
                      found |-> findLocalConfigInPath(r.st.markers, dir)]
          /\ UNCHANGED <<configs, history, ghost, procs>>

NextLocal == RunWriteLocalConfig \/ RunRemoveLocalConfig

SpecLocal == InitFind /\ [][NextLocal]_vars

\* ------------------------------------------------- clearing the history
\* history.ClearHistory() followed by history.GetPreviousConfig(), whose
\* results are kept in last.found. The flag says that the filesystem
\* refuses to remove a file that exists.
RunClearHistory ==
    \E mode \in {"ok", "fail"} :
      LET c == ClearHistory(St, mode)
      IN  /\ history' = c.st.history
          /\ last' = [op |-> "clear", args |-> last.args, cwd |-> <<>>,
                      flags |-> IF mode = "ok" THEN {} ELSE {"remove-fails"},
                      pre |-> [configs |-> configs, history |-> history],
                      err |-> c.err, log |-> c.st.log,
                      found |-> GetPreviousConfig(c.st.history)]
          /\ UNCHANGED <<configs, markers, ghost, procs>>

NextHistory == RunSaveThenGet \/ RunClearHistory \/ RunGetPrevious

SpecHistory == InitNames /\ [][NextHistory]_vars

\* ------------------------------------------- all commands on one store
\* The store {a, b} with one of them active: a has an account, b has no
\* property.
AllStore(activeName) ==
    {[Name |-> Str1("a"), IsActive |-> (Str1("a") = activeName),
      Properties |-> [EmptyProperties EXCEPT !.Account = "alice"]],
     [Name |-> Str1("b"), IsActive |-> (Str1("b") = activeName),
      Properties |-> EmptyProperties]}

\* Exactly one configuration is active, nothing was switched yet, and the
\* root directory is bound to b.
InitAll ==
    /\ configs \in {AllStore(n) : n \in {Str1("a"), Str1("b")}}
    /\ history = NoFile
    /\ markers = [d \in Dirs |-> IF d = <<>> THEN File(<<"b", "\n">>) ELSE NoFile]
    /\ last = [op |-> "init", args |-> <<>>, cwd |-> <<>>, flags |-> {},
               pre |-> [configs |-> configs, history |-> history],
               err |-> Nil, log |-> <<>>]
    /\ ghost = [from |-> NoFile, inSync |-> FALSE, writeFailed |-> FALSE]
    /\ procs = NoProcs

\* Commands are run for as long as gcloud has not created a configuration
\* under the invalid name.
Settled == BadName \notin {c.Name : c \in configs}

\* Files to import: an invalid name, and a held name and a new name with
\* and without an account.
AllFiles ==
    {[read |-> "ok", config |-> ExportConfig(BadName, "", "")]}
    \cup {[read |-> "ok", config |-> ExportConfig(n, account, "")] :
            n \in {Str1("a"), Str1("c")}, account \in {"", "alice"}}

\* gcloudctx NAME and gcloudctx -
AnySwitch ==
    /\ Settled
    /\ \E args \in {<<n>> : n \in ProfileNames \cup {Dash}}, act \in BOOLEAN :
       \E hist \in (IF act THEN {"ok", "noopen"} ELSE {"ok"}) :
         Commit("root", args, <<>>, {},
                runRoot(St, args, FALSE, Env(hist, act, TRUE, "ok")), FALSE)

\* gcloudctx auto
AnyAuto ==
    /\ Settled
    /\ \E cwd \in Dirs, act \in BOOLEAN :
         Commit("auto", <<>>, cwd, {},
                runAuto(St, cwd, Env("ok", act, TRUE, "ok")), FALSE)

\* gcloudctx create NAME [--activate]
AnyCreate ==
    /\ Settled
    /\ \E name \in {Str1("b"), Str1("c"), BadName}, activateFlag \in BOOLEAN :
        LET fresh == name \notin {c.Name : c \in configs}
        IN  \E create \in (IF fresh THEN BOOLEAN ELSE {TRUE}) :
              \E createActivates \in (IF fresh /\ create THEN BOOLEAN ELSE {FALSE}),
                 act \in (IF fresh /\ create /\ activateFlag
                          THEN BOOLEAN ELSE {TRUE}) :
                Commit("create", <<name>>, <<>>,
                       IF activateFlag THEN {"activate"} ELSE {},
                       runCreate(St, <<name>>, activateFlag,
                                 OpsEnv(create, createActivates, "none", act, TRUE)),
                       FALSE)

\* gcloudctx delete NAME --force
AnyDelete ==
    /\ Settled
    /\ \E name \in ProfileNames, delete \in BOOLEAN :
         Commit("delete", <<name>>, <<>>, {"force"},
                runDelete(St, <<name>>, TRUE, <<>>,
                          OpsEnv(TRUE, FALSE, "none", TRUE, delete)),
                FALSE)

\* gcloudctx clone SOURCE TARGET [--activate]
AnyClone ==
    /\ Settled
    /\ \E sourceName \in {Str1("a"), Str1("c")},
          targetName \in {Str1("b"), Str1("c"), BadName} :
        LET valid == /\ sourceName \in {c.Name : c \in configs}
                     /\ targetName \notin {c.Name : c \in configs}
                     /\ targetName # BadName
            copies == \E c \in configs :
                         c.Name = sourceName /\ c.Properties.Account # ""
        IN  \E create \in (IF valid THEN BOOLEAN ELSE {TRUE}) :
              \E createActivates \in (IF valid /\ create THEN BOOLEAN ELSE {FALSE}),
                 setFail \in (IF valid /\ create /\ copies
                              THEN {"none", "Account"} ELSE {"none"}) :
                \E delete \in (IF setFail # "none" THEN BOOLEAN ELSE {TRUE}),
                   cloneActivateFlag \in (IF valid /\ create /\ setFail = "none"
                                          THEN BOOLEAN ELSE {FALSE}) :
                  \E act \in (IF cloneActivateFlag THEN BOOLEAN ELSE {TRUE}) :
                    Commit("clone", <<sourceName, targetName>>, <<>>,
                           IF cloneActivateFlag THEN {"activate"} ELSE {},
                           runClone(St, <<sourceName, targetName>>,
                                    cloneActivateFlag,
                                    OpsEnv(create, createActivates, setFail, act,
                                           delete)),
                           FALSE)

\* gcloudctx rename OLD NEW
AnyRename ==
    /\ Settled
    /\ \E oldName \in ProfileNames, newName \in {Str1("a"), Str1("c"), BadName} :
        LET valid == /\ oldName \in {c.Name : c \in configs}
                     /\ newName \notin {c.Name : c \in configs}
            copies == \E c \in configs :
                         c.Name = oldName /\ c.Properties.Account # ""
            active == \E c \in configs : c.Name = oldName /\ c.IsActive
        IN  \E create \in (IF valid THEN BOOLEAN ELSE {TRUE}) :
              \E createActivates \in (IF valid /\ create THEN BOOLEAN ELSE {FALSE}),
                 setFail \in (IF valid /\ create /\ copies
                              THEN {"none", "Account"} ELSE {"none"}),
                 delete \in (IF valid /\ create THEN BOOLEAN ELSE {TRUE}) :
                \E act \in (IF valid /\ create /\ setFail = "none" /\ active
                            THEN BOOLEAN ELSE {TRUE}) :
                  Commit("rename", <<oldName, newName>>, <<>>, {},
                         runRename(St, <<oldName, newName>>,
                                   OpsEnv(create, createActivates, setFail, act,
                                          delete)),
                         FALSE)

\* gcloudctx import FILE [--overwrite] [--activate]
AnyImport ==
    /\ Settled
    /\ \E file \in AllFiles :
       \E importOverwriteFlag \in (IF file.config.Name \in {c.Name : c \in configs}
                                   THEN BOOLEAN ELSE {FALSE}),
          importActivateFlag \in BOOLEAN :
        LET configName == file.config.Name
            exists == configName \in {c.Name : c \in configs}
            valid == /\ configName # BadName
                     /\ exists => importOverwriteFlag
        IN  \E delete \in (IF valid /\ exists THEN BOOLEAN ELSE {TRUE}),
               create \in (IF valid THEN BOOLEAN ELSE {TRUE}) :
              \E createActivates \in (IF valid /\ create THEN BOOLEAN ELSE {FALSE}),
                 setFail \in (IF valid /\ create /\ file.config.Account # ""
                              THEN {"none", "Account"} ELSE {"none"}) :
                \E cleanup \in (IF setFail # "none" THEN BOOLEAN ELSE {TRUE}),
                   act \in (IF valid /\ create /\ setFail = "none"
                               /\ importActivateFlag
                            THEN BOOLEAN ELSE {TRUE}) :
                  Commit("import", <<file, <<>>>>, <<>>,
                         (IF importOverwriteFlag THEN {"overwrite"} ELSE {})
                         \cup (IF importActivateFlag THEN {"activate"} ELSE {}),
                         runImport(St, file, <<>>, importOverwriteFlag,
                                   importActivateFlag,
                                   ImportEnv(create, createActivates, setFail,
                                             act, delete, cleanup)),
                         FALSE)

NextAll ==
    AnySwitch \/ AnyAuto \/ AnyCreate \/ AnyDelete \/ AnyClone \/ AnyRename
        \/ AnyImport

SpecAll == InitAll /\ [][NextAll]_vars

\* ------------------------------------- which commands write the history
\* Commands are run for as long as the store holds no third configuration.
Small == {c.Name : c \in configs} \subseteq {Str1("a"), Str1("b")}

\* gcloudctx use [NAME] [--unset] [--switch] in the root directory
AnyUse ==
    \E flags \in UseFlags :
      \E args \in (IF "unset" \in flags THEN {<<>>}
                   ELSE {<<>>, <<Str1("a")>>, <<Str1("b")>>}),
         act \in (IF "switch" \in flags THEN BOOLEAN ELSE {TRUE}) :
          Commit("use", args, <<>>, flags,
                 runUse(St, args, <<>>, "unset" \in flags, "switch" \in flags,
                        Env("ok", act, TRUE, "ok")),
                 FALSE)

\* gcloudctx export [NAME] [--format F] [--output FILE]
AnyExport ==
    \E args \in {<<>>, <<Str1("a")>>, <<Str1("c")>>},
       exportFormatFlag \in {"yaml", "json", "toml"},
       exportOutputFlag \in BOOLEAN :
      \E write \in (IF exportOutputFlag THEN BOOLEAN ELSE {TRUE}) :
          Commit("export", args, <<>>,
                 {exportFormatFlag} \cup (IF exportOutputFlag THEN {"output"} ELSE {}),
                 runExport(St, args, exportFormatFlag, exportOutputFlag,
                           [write |-> write]),
                 FALSE)

NextFrame ==
    \/ Small /\ AnySwitch
    \/ Small /\ AnyAuto
    \/ Small /\ AnyUse
    \/ Small /\ AnyCreate
    \/ Small /\ AnyDelete
    \/ Small /\ AnyClone
    \/ Small /\ AnyRename
    \/ Small /\ AnyImport
    \/ Small /\ AnyExport

SpecFrame == InitAll /\ [][NextFrame]_vars

\* ------------------------------------------ two switches at the same time
\* Two invocations of `gcloudctx NAME` run switchConfiguration step by step,
\* one call to gcloud or to the filesystem at a time, in any order.
Procs == {1, 2}

\* The names of the store; they differ in length.
RaceNames == {Str1("a"), Str1("b"), <<"c", "c">>}

\* The file is left as it is when it is opened.
OpenTrunc_Keep(file) == IF file.exists THEN file ELSE File(<<>>)

\* os.WriteFile opens the file with O_CREATE|O_TRUNC ...
OpenTrunc(file) == File(<<>>)

\* The data goes to the end of the file.
WriteAt_End(file, data) == File(file.data \o data)

\* ... and writes the data from its own offset 0, over what another writer
\* may have put there since the file was opened.
WriteAt(file, data) ==
    File(data \o SubSeq(file.data, Len(data) + 1, Len(file.data)))

Idle ==
    [pc |-> "idle", target |-> <<>>, current |-> <<>>, err |-> Nil,
     mode |-> "ok", seen |-> 0]

\* a or cc is active, history is absent or names b, no invocation runs yet.
\* last.writes and last.acts are the history writes and the activations in
\* the order they were made, last.after the result of a `gcloudctx -` that
\* follows the two invocations.
InitRace ==
    /\ configs \in {Store(RaceNames, n) : n \in {Str1("a"), <<"c", "c">>}}
    /\ history \in {NoFile, File(Str1("b"))}
    /\ markers = [d \in Dirs |-> NoFile]
    /\ last = [op |-> "race", writes |-> <<>>, acts |-> <<>>,
               after |-> [done |-> FALSE, err |-> Nil,
                          pre |-> [configs |-> {}, history |-> NoFile]]]
    /\ ghost = [from |-> NoFile, inSync |-> FALSE, writeFailed |-> FALSE]
    /\ procs = [p \in Procs |-> Idle]

\* gcloudctx NAME is started.
RaceStart(p) ==
    /\ procs[p].pc = "idle"
    /\ \E target \in RaceNames \cup {MissingName} :
          procs' = [procs EXCEPT ![p].pc = "getactive", ![p].target = target]
    /\ UNCHANGED <<configs, history, markers, last, ghost>>

\* root.go:191: gcloud.GetActiveConfiguration()
RaceGetActive(p) ==
    /\ procs[p].pc = "getactive"
    /\ LET currentConfig == GetActiveConfiguration(configs)
       IN  procs' = IF currentConfig.err # Nil
                    THEN [procs EXCEPT ![p].pc = "done",
                                       ![p].err = currentConfig.err]
                    ELSE [procs EXCEPT ![p].pc = "exists",
                                       ![p].current = currentConfig.Name,
                                       ![p].seen = Cardinality(
                                           {i \in 1..Len(last.acts) :
                                               last.acts[i].ok})]
    /\ UNCHANGED <<configs, history, markers, last, ghost>>

\* root.go:198-207: gcloud.ConfigurationExists(targetName), and the
\* comparison with the name read before.
RaceExists(p) ==
    /\ procs[p].pc = "exists"
    /\ procs' = IF ~ConfigurationExists(configs, procs[p].target)
                THEN [procs EXCEPT ![p].pc = "done", ![p].err = ErrConfigNotFound]
                ELSE IF AlreadyOnTarget(procs[p].current, procs[p].target)
                THEN [procs EXCEPT ![p].pc = "done"]
                ELSE [procs EXCEPT ![p].pc = "open"]
    /\ UNCHANGED <<configs, history, markers, last, ghost>>

\* root.go:210, history.SavePreviousConfig: the open of os.WriteFile. A
\* file that cannot be opened ends the write, with a warning.
RaceOpen(p) ==
    /\ procs[p].pc = "open"
    /\ \E mode \in WriteModes :
          IF mode = "noopen"
          THEN /\ procs' = [procs EXCEPT ![p].pc = "activate", ![p].mode = mode]
               /\ last' = [last EXCEPT !.writes =
                              Append(@, [proc |-> p, ok |-> FALSE])]
               /\ UNCHANGED history
          ELSE /\ procs' = [procs EXCEPT ![p].pc = "write", ![p].mode = mode]
               /\ history' = OpenTrunc(history)
               /\ UNCHANGED last
    /\ UNCHANGED <<configs, markers, ghost>>

\* The write of os.WriteFile, of the name read at the start.
RaceWrite(p) ==
    /\ procs[p].pc = "write"
    /\ procs' = [procs EXCEPT ![p].pc = "activate"]
    /\ history' = IF procs[p].mode = "ok"
                  THEN WriteAt(history, procs[p].current)
                  ELSE history
    /\ last' = [last EXCEPT !.writes =
                   Append(@, [proc |-> p, ok |-> procs[p].mode = "ok"])]
    /\ UNCHANGED <<configs, markers, ghost>>

\* root.go:216: gcloud.ActivateConfiguration(targetName)
RaceActivate(p) ==
    /\ procs[p].pc = "activate"
    /\ \E act \in BOOLEAN :
          LET a == ActivateConfiguration(St, procs[p].target, act)
          IN  /\ configs' = a.st.configs
              /\ procs' = [procs EXCEPT ![p].pc = "done", ![p].err = a.err]
              /\ last' = [last EXCEPT !.acts =
                             Append(@, [proc |-> p, ok |-> a.err = Nil,
                                        before |-> ActiveName(configs)])]
    /\ UNCHANGED <<history, markers, ghost>>

RaceStarts == \E p \in Procs : RaceStart(p)

RaceGetActives == \E p \in Procs : RaceGetActive(p)

RaceExistsChecks == \E p \in Procs : RaceExists(p)

RaceOpens == \E p \in Procs : RaceOpen(p)

RaceWrites == \E p \in Procs : RaceWrite(p)

RaceActivates == \E p \in Procs : RaceActivate(p)

\* gcloudctx - once the two invocations have ended, every call succeeding.
RaceSwitchPrevious ==
    /\ \A p \in Procs : procs[p].pc = "done"
    /\ ~last.after.done
    /\ LET r == switchToPrevious(St, FALSE, Env("ok", TRUE, TRUE, "ok"))
       IN  /\ configs' = r.st.configs
           /\ history' = r.st.history
           /\ last' = [last EXCEPT !.after =
                          [done |-> TRUE, err |-> r.err,
                           pre |-> [configs |-> configs, history |-> history]]]
    /\ UNCHANGED <<markers, ghost, procs>>

NextRace ==
    \/ RaceStarts
    \/ RaceGetActives
    \/ RaceExistsChecks
    \/ RaceOpens
    \/ RaceWrites
    \/ RaceActivates
    \/ RaceSwitchPrevious

SpecRace == InitRace /\ [][NextRace]_vars

\* =============================================================== claims
\* What the last invocation was, read off `last` without the handlers.
ObsNames(cs) == {c.Name : c \in cs}

ObsActive(cs) == {c.Name : c \in {x \in cs : x.IsActive}}

ObsPrevious(h) == IF h.exists THEN TrimSpace(h.data) ELSE <<>>

IsSwitchByName ==
    last.op = "root" /\ Len(last.args) = 1 /\ last.args[1] # Dash

IsSwitchPrevious == last.op = "root" /\ last.args = <<Dash>>

IsUseSwitch ==
    /\ last.op = "use"
    /\ "switch" \in last.flags
    /\ HasEvent(last.log, "WriteLocalConfig", TRUE)

\* The invocation entered switchConfiguration, with SwitchTarget.
SwitchReached ==
    \/ IsSwitchByName
    \/ IsSwitchPrevious /\ ObsPrevious(last.pre.history) # <<>>
    \/ IsUseSwitch

SwitchTarget ==
    IF IsSwitchPrevious THEN ObsPrevious(last.pre.history) ELSE last.args[1]

Calls(log) ==
    {i \in 1..Len(log) :
        log[i].ev \in {"SavePreviousConfig", "ActivateConfiguration", "SyncADC"}}

Reported(log, ev, msg) ==
    \E i \in 1..Len(log) : log[i].ev = ev /\ log[i].msg = msg

\* C1: a switch (by name, via "-", via use --switch) to an existing profile
\* that is already active writes no history, calls no activation, reports
\* success, and leaves history and the active profile unchanged.
C1_SelfSwitchIsNoOp ==
    (/\ SwitchReached
     /\ SwitchTarget \in ObsNames(last.pre.configs)
     /\ ObsActive(last.pre.configs) = {SwitchTarget})
    => /\ Calls(last.log) = {}
       /\ last.err = Nil
       /\ Reported(last.log, "PrintSuccess", "already on configuration")
       /\ history = last.pre.history
       /\ configs = last.pre.configs

C1_Witness ==
    /\ IsSwitchPrevious
    /\ SwitchReached
    /\ ObsActive(last.pre.configs) = {SwitchTarget}
    /\ last.err = Nil
    /\ history = last.pre.history

\* C2: a switch to a name that is not in the store fails with a not-found
\* error and changes neither history nor the store; no mutating call is made.
C2_MissingTargetNoMutation ==
    (SwitchReached /\ SwitchTarget \notin ObsNames(last.pre.configs))
    => /\ last.err # Nil
       /\ ErrKind(last.err) = "NotFound"
       /\ (ObsActive(last.pre.configs) # {} => last.err = ErrConfigNotFound)
       /\ Calls(last.log) = {}
       /\ history = last.pre.history
       /\ configs = last.pre.configs

C2_Witness ==
    /\ IsSwitchByName
    /\ last.args[1] = MissingName
    /\ last.pre.history.exists
    /\ ObsActive(last.pre.configs) # {}
    /\ last.err = ErrConfigNotFound

\* C3: whenever an invocation calls the activation, it has attempted the
\* history write of the previously active name before it; so after a failed
\* activation whose history write took effect, history names the profile
\* that was active when the switch started.
C3_HistoryBeforeActivation ==
    /\ \A i \in 1..Len(last.log) :
          last.log[i].ev = "ActivateConfiguration"
          => \E j \in 1..(i - 1) :
                /\ last.log[j].ev = "SavePreviousConfig"
                /\ {last.log[j].arg} = ObsActive(last.pre.configs)
    /\ (/\ HasEvent(last.log, "ActivateConfiguration", FALSE)
        /\ HasEvent(last.log, "SavePreviousConfig", TRUE))
       => /\ history.exists
          /\ {history.data} = ObsActive(last.pre.configs)
          /\ ObsActive(configs) = ObsActive(last.pre.configs)

C3_Witness ==
    /\ SwitchReached
    /\ HasEvent(last.log, "ActivateConfiguration", FALSE)
    /\ HasEvent(last.log, "SavePreviousConfig", TRUE)
    /\ history # last.pre.history
    /\ {history.data} = ObsActive(configs)

\* C4 as stated: the history record, when present, holds the name of the
\* profile that was active immediately before the last successful switch
\* (here even granted that no history write has failed so far).
C4_Original ==
    (/\ ~ghost.writeFailed
     /\ ghost.from.exists
     /\ history.exists)
    => history.data = ghost.from.data

\* C4 as amended: after an invocation whose history write succeeded, the
\* history record holds the name of the profile that was active when that
\* invocation started, whether or not its activation then succeeded; it
\* names the profile active before the last successful switch as long as
\* that switch's history write succeeded and no later invocation has
\* attempted a history write.
C4_HistoryTracksLastWrite ==
    /\ HasEvent(last.log, "SavePreviousConfig", TRUE)
       => /\ history.exists
          /\ {history.data} = ObsActive(last.pre.configs)
    /\ ghost.inSync
       => /\ ghost.from.exists
          /\ history = File(ghost.from.data)

C4_Witness ==
    /\ HasEvent(last.log, "SavePreviousConfig", TRUE)
    /\ HasEvent(last.log, "ActivateConfiguration", FALSE)
    /\ ~ghost.writeFailed
    /\ ghost.from.exists
    /\ history.exists
    /\ history.data # ghost.from.data
    /\ {history.data} = ObsActive(configs)

OkEnv == Env("ok", TRUE, TRUE, "ok")

NoCallFailed(log) == \A i \in 1..Len(log) : log[i].ok

\* C5: with A active and B another existing profile, and every call
\* succeeding, switch(B) ends with active = B and history = A and a following
\* switch("-") ends with active = A and history = B; a switch("-") from
\* (active B, history A) ends with (active A, history B) and a second
\* switch("-") returns to (active B, history A).
C5_ToggleBack ==
    \A A \in ObsActive(last.pre.configs) :
        /\ (/\ IsSwitchByName
            /\ last.args[1] \in ObsNames(last.pre.configs) \ {A}
            /\ NoCallFailed(last.log))
           => /\ last.err = Nil
              /\ ObsActive(configs) = {last.args[1]}
              /\ history = File(A)
              /\ LET r == switchToPrevious(St, FALSE, OkEnv)
                 IN  /\ r.err = Nil
                     /\ ObsActive(r.st.configs) = {A}
                     /\ r.st.history = File(last.args[1])
        /\ (/\ IsSwitchPrevious
            /\ ObsPrevious(last.pre.history) \in ObsNames(last.pre.configs) \ {A}
            /\ NoCallFailed(last.log))
           => /\ last.err = Nil
              /\ ObsActive(configs) = {ObsPrevious(last.pre.history)}
              /\ history = File(A)
              /\ LET r == switchToPrevious(St, FALSE, OkEnv)
                 IN  /\ r.err = Nil
                     /\ ObsActive(r.st.configs) = {A}
                     /\ ObsPrevious(r.st.history) = ObsPrevious(last.pre.history)

C5_Witness ==
    /\ IsSwitchPrevious
    /\ last.err = Nil
    /\ last.pre.history.exists
    /\ last.pre.history.data \in ObsNames(last.pre.configs)
    /\ HasEvent(last.log, "ActivateConfiguration", TRUE)
    /\ ObsActive(configs) = {last.pre.history.data}
    /\ {history.data} = ObsActive(last.pre.configs)

\* C6: a failed history write does not abort the switch: the activation of
\* the target is still attempted after it, and when the activation succeeds
\* the target is active, the failure was only warned about, the switch is
\* reported as done and no error is returned for it.
C6_HistoryFailureIsWarning ==
    \A i \in 1..Len(last.log) :
        (last.log[i].ev = "SavePreviousConfig" /\ ~last.log[i].ok)
        => /\ Reported(last.log, "Warning", "failed to save history")
           /\ \E j \in (i + 1)..Len(last.log) :
                 /\ last.log[j].ev = "ActivateConfiguration"
                 /\ (SwitchReached => last.log[j].arg = SwitchTarget)
                 /\ last.log[j].ok
                    => /\ ObsActive(configs) = {last.log[j].arg}
                       /\ Reported(last.log, "PrintSuccess",
                                   "switched to configuration")
                       /\ (last.err = Nil \/ HasEvent(last.log, "SyncADC", FALSE))

C6_Witness ==
    /\ SwitchReached
    /\ HasEvent(last.log, "SavePreviousConfig", FALSE)
    /\ HasEvent(last.log, "ActivateConfiguration", TRUE)
    /\ last.err = Nil
    /\ ObsActive(configs) = {SwitchTarget}
    /\ ObsActive(last.pre.configs) # {SwitchTarget}

\* C7: a failed activation makes the invocation return an error, leaves the
\* active profile as it was before the call, and nothing runs after it but
\* the error report: no success report, no credential sync.
C7_ActivationFailureIsFatal ==
    \A i \in 1..Len(last.log) :
        (last.log[i].ev = "ActivateConfiguration" /\ ~last.log[i].ok)
        => /\ last.err = ErrActivate
           /\ configs = last.pre.configs
           /\ \A j \in (i + 1)..Len(last.log) : last.log[j].ev = "PrintError"
           /\ ~Attempted(last.log, "SyncADC")
           /\ ~Reported(last.log, "PrintSuccess", "switched to configuration")

C7_Witness ==
    /\ IsSwitchByName
    /\ "sync-adc" \in last.flags
    /\ HasEvent(last.log, "ActivateConfiguration", FALSE)
    /\ last.err = ErrActivate
    /\ ObsActive(configs) = ObsActive(last.pre.configs)

\* C8: the credential sync runs only with the sync flag set and only after
\* a successful activation of the same invocation; when it fails, the target
\* stays active and history keeps what this switch wrote.
C8_SyncOnlyAfterActivation ==
    /\ \A j \in 1..Len(last.log) :
          last.log[j].ev = "SyncADC"
          => /\ "sync-adc" \in last.flags
             /\ \E i \in 1..(j - 1) :
                   /\ last.log[i].ev = "ActivateConfiguration"
                   /\ last.log[i].ok
    /\ HasEvent(last.log, "SyncADC", FALSE)
       => /\ SwitchReached
          /\ ObsActive(configs) = {SwitchTarget}
          /\ ObsActive(last.pre.configs) # {SwitchTarget}
          /\ IF HasEvent(last.log, "SavePreviousConfig", TRUE)
             THEN {history.data} = ObsActive(last.pre.configs) /\ history.exists
             ELSE history \in {last.pre.history, File(<<>>)}

C8_Witness ==
    /\ "sync-adc" \in last.flags
    /\ HasEvent(last.log, "SyncADC", FALSE)
    /\ HasEvent(last.log, "SavePreviousConfig", TRUE)
    /\ ObsActive(configs) = {SwitchTarget}
    /\ {history.data} = ObsActive(last.pre.configs)
    /\ history # last.pre.history

\* C9 as stated: when the activation succeeded and the sync fails, the
\* switch does not return an error.
C9_Original ==
    (/\ HasEvent(last.log, "ActivateConfiguration", TRUE)
     /\ HasEvent(last.log, "SyncADC", FALSE))
    => last.err = Nil

\* C9 as amended: when the activation succeeded and the sync fails, the
\* failure is reported and the switch returns the sync error; the
\* activation stays in place.
C9_SyncFailureIsReturned ==
    (/\ HasEvent(last.log, "ActivateConfiguration", TRUE)
     /\ HasEvent(last.log, "SyncADC", FALSE))
    => /\ last.err = ErrSyncADC
       /\ last.log[Len(last.log)].ev = "PrintError"
       /\ ~Reported(last.log, "PrintSuccess", "ADC synced successfully")
       /\ ObsActive(configs) = {SwitchTarget}

C9_Witness ==
    /\ HasEvent(last.log, "ActivateConfiguration", TRUE)
    /\ HasEvent(last.log, "SyncADC", FALSE)
    /\ last.err = ErrSyncADC
    /\ ObsActive(configs) = {SwitchTarget}

\* C10: switch("-") fails with a not-found error and changes neither history
\* nor the store (a) when history is absent or blank: the error is the
\* history's own and nothing else is done; (b) when history names a profile
\* that is not in the store: the error is the one of the switch itself.
C10_PreviousNotFound ==
    /\ (IsSwitchPrevious /\ ObsPrevious(last.pre.history) = <<>>)
       => /\ last.err = ErrNoPrevious
          /\ ErrKind(last.err) = "NotFound"
          /\ Len(last.log) = 1
          /\ last.log[1].ev = "PrintError"
          /\ history = last.pre.history
          /\ configs = last.pre.configs
    /\ (/\ IsSwitchPrevious
        /\ ObsPrevious(last.pre.history) # <<>>
        /\ ObsPrevious(last.pre.history) \notin ObsNames(last.pre.configs))
       => /\ last.err \in {ErrConfigNotFound, ErrNoActive}
          /\ ErrKind(last.err) = "NotFound"
          /\ (ObsActive(last.pre.configs) # {} => last.err = ErrConfigNotFound)
          /\ Calls(last.log) = {}
          /\ history = last.pre.history
          /\ configs = last.pre.configs

C10_Witness ==
    /\ IsSwitchPrevious
    /\ last.pre.history = File(MissingName)
    /\ ObsActive(last.pre.configs) # {}
    /\ last.err = ErrConfigNotFound
    /\ history = last.pre.history

\* Reached as well: switch("-") on an absent and on a blank history file.
C10_WitnessAbsent ==
    IsSwitchPrevious /\ ~last.pre.history.exists /\ last.err = ErrNoPrevious

C10_WitnessBlank ==
    /\ IsSwitchPrevious
    /\ last.pre.history.exists
    /\ last.pre.history.data # <<>>
    /\ last.err = ErrNoPrevious

\* ------------------------------------------------ claims on the lookup
\* The directories from d up to the root, read off the path itself.
ObsAncestors(d) == {SubSeq(d, 1, k) : k \in 0..Len(d)}

ObsMarked(d) == {a \in ObsAncestors(d) : markers[a].exists}

\* The marked directory nearest to d (ObsMarked(d) must not be empty).
ObsNearest(d) ==
    CHOOSE a \in ObsMarked(d) : \A b \in ObsMarked(d) : Len(b) <= Len(a)

ObsBlank(data) == \A i \in 1..Len(data) : data[i] \in {" ", "\n", "\t", "\r"}

IsFind == last.op = "find"

\* C11: from every start directory the lookup returns the trimmed contents
\* and the directory of the nearest marker file on the way up to the root,
\* whatever markers lie further up; a marker only at an ancestor is found
\* from every descendant.
C11_NearestBindingWins ==
    (/\ IsFind
     /\ ObsMarked(last.cwd) # {}
     /\ ~ObsBlank(markers[ObsNearest(last.cwd)].data))
    => /\ last.found.err = Nil
       /\ last.found.dir = ObsNearest(last.cwd)
       /\ last.found.name = TrimSpace(markers[last.found.dir].data)
       /\ last.found.name # <<>>
       /\ ~ObsBlank(last.found.name)

\* A marker in the working directory shadows a different one in an ancestor.
C11_Witness ==
    /\ IsFind
    /\ Len(last.cwd) = 2
    /\ markers[last.cwd] = File(MissingName)
    /\ markers[<<>>] = File(<<" ", "a", "\n">>)
    /\ last.found.err = Nil
    /\ last.found.name = MissingName
    /\ last.found.dir = last.cwd

\* A marker only at the root is found from the deepest directory.
C11_WitnessAncestor ==
    /\ IsFind
    /\ Len(last.cwd) = 2
    /\ ObsMarked(last.cwd) = {<<>>}
    /\ last.found.err = Nil
    /\ last.found.name = Str1("a")
    /\ last.found.dir = <<>>

\* C12: when the nearest marker file on the way up is empty or holds only
\* white space, the lookup fails with the empty-binding error, which is not
\* the not-found error, and returns no name and no directory, even when an
\* ancestor has a marker with a name in it.
C12_BlankMarkerIsEmptyBinding ==
    (/\ IsFind
     /\ ObsMarked(last.cwd) # {}
     /\ ObsBlank(markers[ObsNearest(last.cwd)].data))
    => /\ last.found.err = ErrMarkerEmpty
       /\ last.found.err # ErrNoMarker
       /\ ErrKind(last.found.err) = "EmptyBinding"
       /\ ErrKind(ErrNoMarker) = "NotFound"
       /\ last.found.name = <<>>
       /\ last.found.dir = <<>>
       /\ last.found.visited[Len(last.found.visited)] = ObsNearest(last.cwd)

C12_Witness ==
    /\ IsFind
    /\ Len(last.cwd) = 2
    /\ markers[last.cwd] = File(<<" ", "\n">>)
    /\ markers[<<"x">>] = File(<<" ", "a", "\n">>)
    /\ last.found.err = ErrMarkerEmpty

\* C13: the walk goes strictly upward from the start directory, one parent
\* at a time and never to the same directory twice; it ends at a marker file
\* or at the directory that is its own parent, and it fails with not-found
\* exactly when no directory from the start to the root has a marker file.
C13_WalkTerminatesAtRoot ==
    IsFind
    => LET v == last.found.visited
       IN  /\ Len(v) >= 1
           /\ Len(v) <= Len(last.cwd) + 1
           /\ v[1] = last.cwd
           /\ \A i \in 1..(Len(v) - 1) :
                 /\ Len(v[i]) >= 1
                 /\ v[i + 1] = SubSeq(v[i], 1, Len(v[i]) - 1)
                 /\ ~markers[v[i]].exists
           /\ \A i, j \in 1..Len(v) : i # j => v[i] # v[j]
           /\ (markers[v[Len(v)]].exists \/ v[Len(v)] = <<>>)
           /\ (last.found.err = ErrNoMarker) = (ObsMarked(last.cwd) = {})
           /\ last.found.err = ErrNoMarker
              => /\ v[Len(v)] = <<>>
                 /\ Len(v) = Len(last.cwd) + 1
                 /\ ErrKind(last.found.err) = "NotFound"

C13_Witness ==
    /\ IsFind
    /\ Len(last.cwd) = 2
    /\ ObsMarked(last.cwd) = {}
    /\ last.found.err = ErrNoMarker
    /\ last.found.visited = <<last.cwd, <<"x">>, <<>> >>

IsAuto == last.op = "auto"

\* The working directory of the last invocation has a binding with a name.
ObsBound(d) ==
    /\ ObsMarked(d) # {}
    /\ ~ObsBlank(markers[ObsNearest(d)].data)

ObsBinding(d) == TrimSpace(markers[ObsNearest(d)].data)

\* C14: auto from a directory with no marker file on the way up to the root
\* returns success, makes no call and no report at all, and leaves the store
\* and the history as they were.
C14_AutoWithoutBindingIsSilent ==
    (IsAuto /\ ObsMarked(last.cwd) = {})
    => /\ last.err = Nil
       /\ last.log = <<>>
       /\ configs = last.pre.configs
       /\ history = last.pre.history

C14_Witness ==
    /\ IsAuto
    /\ Len(last.cwd) = 1
    /\ ObsMarked(last.cwd) = {}
    /\ markers[<<"x", "x">>].exists
    /\ last.err = Nil
    /\ history.exists
    /\ ObsActive(configs) # {}

\* C15 as stated: auto from a directory whose nearest marker file is blank
\* reports the misconfiguration and returns an error.
C15_BlankBindingIsReported ==
    (/\ IsAuto
     /\ ObsMarked(last.cwd) # {}
     /\ ObsBlank(markers[ObsNearest(last.cwd)].data))
    => /\ last.err # Nil
       /\ Attempted(last.log, "PrintError")

\* What the code does there: nothing, with success, as for no binding.
C15_SilentOnBlank ==
    /\ IsAuto
    /\ ObsMarked(last.cwd) # {}
    /\ ObsBlank(markers[ObsNearest(last.cwd)].data)
    /\ last.err = Nil
    /\ last.log = <<>>

\* The calls an invocation made on the store and the history, in order.
RECURSIVE CallSeq(_)
CallSeq(log) ==
    IF log = <<>> THEN <<>>
    ELSE IF Head(log).ev \in {"SavePreviousConfig", "ActivateConfiguration", "SyncADC"}
    THEN <<[ev |-> Head(log).ev, arg |-> Head(log).arg, ok |-> Head(log).ok]>>
         \o CallSeq(Tail(log))
    ELSE CallSeq(Tail(log))

\* C16: in every state, from every directory with a binding and under every
\* outcome of the history write and of the activation, auto and the switch
\* by name to the bound name (without credential sync) end with the same
\* store and the same history, succeed or fail alike with errors of the same
\* kind, and make the same calls in the same order: the history write of
\* the active name first, the activation second.
C16_AutoIsSwitchByName ==
    \A cwd \in DOMAIN markers, hist \in WriteModes, act \in BOOLEAN :
        ObsBound(cwd)
        => LET env == Env(hist, act, TRUE, "ok")
               a == runAuto(St, cwd, env)
               s == switchConfiguration(St, ObsBinding(cwd), FALSE, env)
           IN  /\ a.st.configs = s.st.configs
               /\ a.st.history = s.st.history
               /\ (a.err = Nil) = (s.err = Nil)
               /\ ErrKind(a.err) = ErrKind(s.err)
               /\ CallSeq(a.st.log) = CallSeq(s.st.log)
               /\ \A i \in 1..Len(CallSeq(s.st.log)) :
                     CallSeq(s.st.log)[i].ev = "ActivateConfiguration"
                     => /\ i = 2
                        /\ CallSeq(s.st.log)[1].ev = "SavePreviousConfig"
                        /\ {CallSeq(s.st.log)[1].arg} = ObsActive(configs)

\* An auto invocation that switched, ending where the switch by name from
\* the same state ends.
C16_Witness ==
    /\ IsAuto
    /\ ObsBound(last.cwd)
    /\ HasEvent(last.log, "SavePreviousConfig", TRUE)
    /\ HasEvent(last.log, "ActivateConfiguration", TRUE)
    /\ last.err = Nil
    /\ ObsActive(configs) = {ObsBinding(last.cwd)}
    /\ LET s == switchConfiguration(
                    [configs |-> last.pre.configs, history |-> last.pre.history,
                     markers |-> markers, log |-> <<>>],
                    ObsBinding(last.cwd), FALSE, OkEnv)
       IN  /\ s.err = Nil
           /\ s.st.configs = configs
           /\ s.st.history = history
           /\ history # last.pre.history

\* ------------------------------------- claims on clone and rename
ObsRecord(cs, name) == {c \in cs : c.Name = name}

IsClone == last.op = "clone"

IsRename == last.op = "rename"

\* The gcloud calls that change the store.
ObsMutations(log) ==
    {i \in 1..Len(log) :
        log[i].ev \in {"CreateConfiguration", "SetProperty",
                       "ActivateConfiguration", "DeleteConfiguration"}}

ObsEvents(log, ev, ok) == {i \in 1..Len(log) : log[i].ev = ev /\ log[i].ok = ok}

\* C17 as stated: whatever the outcome of a clone without --activate, the
\* source configuration is the same record (properties and active status)
\* after every call and at the end as it was before; and after a clone that
\* succeeded, from a store with an active configuration, the delete of the
\* target succeeds and gives back the store as it was before the clone.
C17_CloneLeavesSourceAlone ==
    (/\ IsClone
     /\ "activate" \notin last.flags
     /\ last.args[1] \in ObsNames(last.pre.configs))
    => /\ ObsRecord(configs, last.args[1])
            = ObsRecord(last.pre.configs, last.args[1])
       /\ \A i \in 1..Len(last.log) :
             ObsRecord(last.log[i].configs, last.args[1])
                = ObsRecord(last.pre.configs, last.args[1])
       /\ (last.err = Nil /\ ObsActive(last.pre.configs) # {})
          => LET d == DeleteConfiguration(St, last.args[2], TRUE)
             IN  /\ d.err = Nil
                 /\ d.st.configs = last.pre.configs

\* The clone of the active configuration a to c succeeded, and c is the
\* active configuration now although --activate was not given.
C17_CloneTookActive ==
    /\ IsClone
    /\ "activate" \notin last.flags
    /\ last.err = Nil
    /\ ObsActive(last.pre.configs) = {last.args[1]}
    /\ ObsActive(configs) = {last.args[2]}
    /\ DeleteConfiguration(St, last.args[2], TRUE).err = ErrDeleteActive

\* C18: a clone whose source is missing or whose target exists (source =
\* target included) fails without a single call that changes the store;
\* when a property copy fails after the target was created, the clone
\* returns the copy error, and either the cleanup deleted the target and the
\* store is the one before the clone, or the cleanup failed, the target is
\* still there and the error says that the cleanup failed too.
C18_CloneFailsClean ==
    /\ (/\ IsClone
        /\ \/ last.args[1] \notin ObsNames(last.pre.configs)
           \/ last.args[2] \in ObsNames(last.pre.configs))
       => /\ last.err # Nil
          /\ ObsMutations(last.log) = {}
          /\ configs = last.pre.configs
          /\ last.args[2] # BadName
             => last.err = IF last.args[1] \notin ObsNames(last.pre.configs)
                           THEN ErrSourceMissing ELSE ErrTargetExists
    /\ IsClone
       => \A i \in ObsEvents(last.log, "SetProperty", FALSE) :
             /\ ObsEvents(last.log, "CreateConfiguration", TRUE) # {}
             /\ ObsEvents(last.log, "ActivateConfiguration", TRUE) = {}
             /\ IF ObsEvents(last.log, "DeleteConfiguration", TRUE) # {}
                THEN /\ configs = last.pre.configs
                     /\ last.err = ErrCopyProperties(
                                        ErrCopyProperty[last.log[i].msg], FALSE)
                ELSE /\ last.args[2] \in ObsNames(configs)
                     /\ ObsNames(configs)
                            = ObsNames(last.pre.configs) \cup {last.args[2]}
                     /\ last.err = ErrCopyProperties(
                                        ErrCopyProperty[last.log[i].msg], TRUE)

\* The copy of the last property failed and the cleanup went through.
C18_Witness ==
    /\ IsClone
    /\ ObsEvents(last.log, "SetProperty", TRUE) # {}
    /\ ObsEvents(last.log, "SetProperty", FALSE) # {}
    /\ ObsEvents(last.log, "DeleteConfiguration", TRUE) # {}
    /\ last.err = "failed to copy properties: zone"
    /\ configs = last.pre.configs

\* Reached as well: the cleanup failed too; source = target.
C18_WitnessCleanupFailed ==
    /\ IsClone
    /\ ObsEvents(last.log, "DeleteConfiguration", FALSE) # {}
    /\ last.err = "failed to copy properties: account (cleanup also failed)"
    /\ last.args[2] \in ObsNames(configs) \ ObsNames(last.pre.configs)

C18_WitnessSameName ==
    /\ IsClone
    /\ last.args[1] = last.args[2]
    /\ last.args[1] \in ObsNames(last.pre.configs)
    /\ last.err = ErrTargetExists

\* C19: a rename of the active configuration in which no call fails
\* returns success with the new name active and the old name gone; the new
\* configuration is activated before the old one is deleted, from the
\* activation on the new one is the active one, and the old one is in the
\* store until its delete.
C19_RenameActivatesBeforeDelete ==
    (/\ IsRename
     /\ ObsActive(last.pre.configs) = {last.args[1]}
     /\ last.args[2] \notin ObsNames(last.pre.configs)
     /\ NoCallFailed(last.log))
    => /\ last.err = Nil
       /\ ObsActive(configs) = {last.args[2]}
       /\ last.args[1] \notin ObsNames(configs)
       /\ last.args[2] \in ObsNames(configs)
       /\ \E i, j \in 1..Len(last.log) :
             /\ i < j
             /\ last.log[i].ev = "ActivateConfiguration"
             /\ last.log[i].arg = last.args[2]
             /\ last.log[j].ev = "DeleteConfiguration"
             /\ last.log[j].arg = last.args[1]
             /\ \A k \in i..Len(last.log) :
                   ObsActive(last.log[k].configs) = {last.args[2]}
             /\ \A k \in 1..(j - 1) :
                   last.args[1] \in ObsNames(last.log[k].configs)
       /\ \A k \in 1..Len(last.log) :
             /\ ObsActive(last.log[k].configs) # {}
             /\ ObsActive(last.log[k].configs) \subseteq ObsNames(last.log[k].configs)

C19_Witness ==
    /\ IsRename
    /\ ObsActive(last.pre.configs) = {last.args[1]}
    /\ last.err = Nil
    /\ ObsEvents(last.log, "SetProperty", TRUE) # {}
    /\ ObsEvents(last.log, "ActivateConfiguration", TRUE) # {}
    /\ ObsEvents(last.log, "DeleteConfiguration", TRUE) # {}
    /\ ObsActive(configs) = {last.args[2]}
    /\ last.args[1] \notin ObsNames(configs)

\* C20: when create, the property copies and (for an active old
\* configuration) the activation went through and the delete of the old
\* configuration then fails, rename returns the error of that delete and
\* undoes nothing: no delete of the new configuration is attempted, both
\* configurations exist, the old one as it was but for its active status,
\* and the new one is active if the old one was.
C20_FailedDeleteLeavesBoth ==
    (/\ IsRename
     /\ last.args[1] \in ObsNames(last.pre.configs)
     /\ ObsEvents(last.log, "CreateConfiguration", TRUE) # {}
     /\ ObsEvents(last.log, "SetProperty", FALSE) = {}
     /\ ObsEvents(last.log, "ActivateConfiguration", FALSE) = {}
     /\ \A i \in ObsEvents(last.log, "DeleteConfiguration", TRUE) :
           last.log[i].arg # last.args[1])
    => /\ last.err # Nil
       /\ last.err \in {ErrDeleteOld(ErrDelete), ErrDeleteOld(ErrNoActive)}
       /\ last.log[Len(last.log)].ev = "PrintError"
       /\ \A i \in 1..Len(last.log) :
             last.log[i].ev = "DeleteConfiguration"
             => last.log[i].arg = last.args[1]
       /\ {last.args[1], last.args[2]} \subseteq ObsNames(configs)
       /\ ObsNames(configs) = ObsNames(last.pre.configs) \cup {last.args[2]}
       /\ {c.Properties : c \in ObsRecord(configs, last.args[1])}
            = {c.Properties : c \in ObsRecord(last.pre.configs, last.args[1])}
       /\ ObsActive(last.pre.configs) = {last.args[1]}
          => ObsActive(configs) = {last.args[2]}

C20_Witness ==
    /\ IsRename
    /\ ObsActive(last.pre.configs) = {last.args[1]}
    /\ ObsEvents(last.log, "ActivateConfiguration", TRUE) # {}
    /\ ObsEvents(last.log, "DeleteConfiguration", FALSE) # {}
    /\ last.err = ErrDeleteOld(ErrDelete)
    /\ ObsActive(configs) = {last.args[2]}
    /\ last.args[1] \in ObsNames(configs)

\* C21 as stated: a rename whose old configuration is missing or whose new
\* name exists (old = new included) fails without a single call that
\* changes the store; when a property copy or the activation of the new
\* configuration fails, rename fails, the old configuration is the same
\* record as before (properties and active status), and the new one is
\* gone again or the error says that its cleanup failed too.
C21_RenameFailsClean ==
    /\ (/\ IsRename
        /\ \/ last.args[1] \notin ObsNames(last.pre.configs)
           \/ last.args[2] \in ObsNames(last.pre.configs))
       => /\ last.err # Nil
          /\ ObsMutations(last.log) = {}
          /\ configs = last.pre.configs
    /\ (/\ IsRename
        /\ \/ ObsEvents(last.log, "SetProperty", FALSE) # {}
           \/ ObsEvents(last.log, "ActivateConfiguration", FALSE) # {})
       => /\ last.err # Nil
          /\ ObsRecord(configs, last.args[1])
               = ObsRecord(last.pre.configs, last.args[1])
          /\ ObsRecord(configs, last.args[1]) # {}
          /\ \/ last.args[2] \notin ObsNames(configs)
             \/ last.err \in {ErrRenameActivate(TRUE)} \cup
                    {ErrCopyProperties(ErrCopyProperty[k], TRUE) :
                        k \in {"Account", "Project", "Region", "Zone"}}

\* The rename of the active configuration failed at a property copy, and
\* the new configuration, which gcloud made the active one when it created
\* it, is still there and active: its cleanup was refused.
C21_RenameTookActive ==
    /\ IsRename
    /\ ObsActive(last.pre.configs) = {last.args[1]}
    /\ ObsEvents(last.log, "SetProperty", FALSE) # {}
    /\ ObsEvents(last.log, "DeleteConfiguration", TRUE) = {}
    /\ ObsEvents(last.log, "DeleteConfiguration", FALSE) = {}
    /\ last.err = "failed to copy properties: account (cleanup also failed)"
    /\ ObsActive(configs) = {last.args[2]}
    /\ last.args[1] \in ObsNames(configs)

\* Reached as well: the cases in which C21 holds. The activation of the
\* new configuration failed and its cleanup went through; old = new.
C21_WitnessActivateFailed ==
    /\ IsRename
    /\ ObsEvents(last.log, "ActivateConfiguration", FALSE) # {}
    /\ ObsEvents(last.log, "DeleteConfiguration", TRUE) # {}
    /\ last.err = ErrRenameActivate(FALSE)
    /\ ObsActive(configs) = {last.args[1]}
    /\ ObsNames(configs) = ObsNames(last.pre.configs)

C21_WitnessSameName ==
    /\ IsRename
    /\ last.args[1] = last.args[2]
    /\ last.args[1] \in ObsNames(last.pre.configs)
    /\ last.err = ErrAlreadyExists

\* C22 as stated: after a rename that succeeded, the properties of the new
\* configuration are all the properties the old one had before the rename.
C22_RenameCopiesAllProperties ==
    (IsRename /\ last.err = Nil)
    => /\ last.args[2] \in ObsNames(configs)
       /\ {c.Properties : c \in ObsRecord(configs, last.args[2])}
            = {c.Properties : c \in ObsRecord(last.pre.configs, last.args[1])}

\* A rename succeeded, the old configuration had usage reporting disabled
\* and the new one has not: account, project, region and zone are the old
\* ones, disable_usage_reporting is back to its default.
C22_RenameLostProperty ==
    /\ IsRename
    /\ last.err = Nil
    /\ \E o \in ObsRecord(last.pre.configs, last.args[1]) :
       \E n \in ObsRecord(configs, last.args[2]) :
          /\ o.Properties.DisableUsageReport
          /\ ~n.Properties.DisableUsageReport
          /\ \A k \in {"Account", "Project", "Region", "Zone"} :
                n.Properties[k] = o.Properties[k]
          /\ o.Properties.Account # ""

\* ------------------------------------------------------ claims on import
IsImport == last.op = "import"

\* The file of the last import was read and parsed.
ImportParsed == IsImport /\ last.args[1].read = "ok"

\* The name an import is for: --name when given, else the one in the file.
ObsImportName ==
    IF last.args[2] # <<>> THEN last.args[2] ELSE last.args[1].config.Name

\* The naming rule ^[a-zA-Z][a-zA-Z0-9_-]{0,62}$ read off the pattern.
ObsNameRule(name) ==
    /\ Len(name) \in 1..63
    /\ name[1] \in {"a", "b", "c", "z", "A", "Z"}
    /\ \A i \in 2..Len(name) :
          name[i] \in {"a", "b", "c", "z", "A", "Z", "0", "1", "9", "_", "-"}

\* C23: an import whose name is held by the store, run without
\* --overwrite, fails with the already-exists error and issues no delete,
\* create, set or activate: the store is the one before.
C23_ImportRefusesExisting ==
    (/\ ImportParsed
     /\ ObsImportName \in ObsNames(last.pre.configs)
     /\ "overwrite" \notin last.flags)
    => /\ last.err = ErrImportExists
       /\ ErrKind(last.err) = "AlreadyExists"
       /\ ObsMutations(last.log) = {}
       /\ configs = last.pre.configs

C23_Witness ==
    /\ ImportParsed
    /\ last.args[2] = <<>>
    /\ last.args[1].config.Name \in ObsNames(last.pre.configs)
    /\ last.args[1].config.Account # ""
    /\ last.flags = {"activate"}
    /\ last.err = ErrImportExists
    /\ configs = last.pre.configs

\* C24: the name of an import is --name when given and the name in the file
\* otherwise: every call that changes the store is for that name. When that
\* name is empty or breaks the naming rule, import fails, with the
\* missing-name or the invalid-name error, before any call that changes the
\* store, whatever the flags.
C24_ImportNameResolved ==
    ImportParsed
    => /\ \A i \in ObsMutations(last.log) : last.log[i].arg = ObsImportName
       /\ (ObsImportName # <<>> /\ ObsNameRule(ObsImportName)
           /\ ObsImportName \notin ObsNames(last.pre.configs)
           /\ NoCallFailed(last.log))
          => /\ last.err = Nil
             /\ ObsImportName \in ObsNames(configs)
             /\ ObsMutations(last.log) # {}
       /\ ObsImportName = <<>>
          => /\ last.err = ErrMissingName
             /\ ObsMutations(last.log) = {}
             /\ configs = last.pre.configs
       /\ (ObsImportName # <<>> /\ ~ObsNameRule(ObsImportName))
          => /\ ErrKind(last.err) = "InvalidName"
             /\ last.err = ErrNameInvalid
             /\ ObsMutations(last.log) = {}
             /\ configs = last.pre.configs

\* --name is invalid and the file holds a valid new name; both flags set.
C24_Witness ==
    /\ ImportParsed
    /\ last.args[2] = BadName
    /\ last.args[1].config.Name = Str1("c")
    /\ last.flags = {"overwrite", "activate"}
    /\ last.err = ErrNameInvalid
    /\ ObsMutations(last.log) = {}

\* Reached as well: --name b wins over the name c of the file; neither a
\* --name nor a name in the file.
C24_WitnessOverride ==
    /\ ImportParsed
    /\ last.args[2] = Str1("b")
    /\ last.args[1].config.Name = Str1("c")
    /\ last.err = Nil
    /\ ObsEvents(last.log, "DeleteConfiguration", TRUE) # {}
    /\ ObsEvents(last.log, "SetProperty", TRUE) # {}
    /\ ObsNames(configs) = ObsNames(last.pre.configs)
    /\ {c.Properties.Account : c \in ObsRecord(configs, Str1("b"))} = {"bob"}

C24_WitnessNoName ==
    /\ ImportParsed
    /\ last.args[2] = <<>>
    /\ last.args[1].config.Name = <<>>
    /\ "overwrite" \in last.flags
    /\ last.err = ErrMissingName

\* C25: an import with --overwrite whose name is the active configuration
\* fails at the delete with the error that protects the active
\* configuration, and no call changes the store.
C25_ImportOverActiveFails ==
    (/\ ImportParsed
     /\ "overwrite" \in last.flags
     /\ ObsActive(last.pre.configs) = {ObsImportName})
    => /\ last.err = ErrDeleteActive
       /\ ErrKind(last.err) = "ActiveProfileProtected"
       /\ ObsMutations(last.log) = {}
       /\ configs = last.pre.configs

C25_Witness ==
    /\ ImportParsed
    /\ "overwrite" \in last.flags
    /\ ObsActive(last.pre.configs) = {ObsImportName}
    /\ last.args[1].config.Account # ""
    /\ last.err = ErrDeleteActive
    /\ Reported(last.log, "PrintError", "failed to delete existing configuration")
    /\ configs = last.pre.configs

\* C26: when a `gcloud config set` of an import fails, the configuration
\* created for it is deleted again, or that delete fails and is warned
\* about; the error returned is the one of the failed set in either case;
\* no activation is attempted and no success is reported.
C26_ImportSetFailureCleansUp ==
    IsImport
    => \A i \in ObsEvents(last.log, "SetProperty", FALSE) :
          /\ \E j \in ObsEvents(last.log, "CreateConfiguration", TRUE) :
                j < i /\ last.log[j].arg = ObsImportName
          /\ last.err = ErrSetProperty[last.log[i].msg]
          /\ last.log[Len(last.log)].msg = last.err
          /\ ~Attempted(last.log, "ActivateConfiguration")
          /\ ~Reported(last.log, "PrintSuccess", "imported configuration")
          /\ \A j \in (i + 1)..Len(last.log) : last.log[j].ev # "SetProperty"
          /\ IF ObsImportName \in ObsNames(configs)
             THEN Reported(last.log, "Warning", "failed to cleanup configuration")
             ELSE /\ \E j \in ObsEvents(last.log, "DeleteConfiguration", TRUE) :
                        j > i /\ last.log[j].arg = ObsImportName
                  /\ ~Attempted(last.log, "Warning")

\* The last set failed, --activate was given, and the cleanup went through.
C26_Witness ==
    /\ IsImport
    /\ "activate" \in last.flags
    /\ ObsEvents(last.log, "SetProperty", TRUE) # {}
    /\ ObsEvents(last.log, "SetProperty", FALSE) # {}
    /\ ObsEvents(last.log, "DeleteConfiguration", TRUE) # {}
    /\ last.err = ErrSetProperty.Zone
    /\ ObsImportName \notin ObsNames(configs)

\* Reached as well: the cleanup failed too, and the error is the set's.
C26_WitnessCleanupFailed ==
    /\ IsImport
    /\ ObsEvents(last.log, "SetProperty", FALSE) # {}
    /\ ObsEvents(last.log, "DeleteConfiguration", FALSE) # {}
    /\ Reported(last.log, "Warning", "failed to cleanup configuration")
    /\ last.err = ErrSetProperty.Account
    /\ ObsImportName \in ObsNames(configs)

\* ------------------------------------------ claims on names and history
\* C28: ValidateConfigurationName accepts a name exactly when the name
\* matches ^[A-Za-z][A-Za-z0-9_-]{0,62}$: the empty name, a name of more
\* than 63 characters, a name that starts with a digit, a hyphen or an
\* underscore and a name with any other character are rejected, each with
\* an invalid-name error; every other name, one of exactly 63 characters
\* included, is accepted.
C28_ValidateIsNameRule ==
    last.op = "validate"
    => /\ last.err = Nil <=> ObsNameRule(last.args[1])
       /\ last.err # Nil => ErrKind(last.err) = "InvalidName"
       /\ last.args[1] = <<>> => last.err = ErrNameEmpty
       /\ Len(last.args[1]) > 63 => last.err = ErrNameTooLong
       /\ (last.args[1] # <<>> /\ last.args[1][1] \in {"9", "-", "_"})
          => last.err # Nil
       /\ (\E i \in 1..Len(last.args[1]) : last.args[1][i] \in {" ", "\n", "@"})
          => last.err # Nil

\* A name of exactly 63 characters, with hyphens, was accepted.
C28_Witness ==
    /\ last.op = "validate"
    /\ Len(last.args[1]) = 63
    /\ last.args[1][63] = "-"
    /\ last.err = Nil

\* Reached as well: 64 valid characters; an underscore first; a mix.
C28_WitnessTooLong ==
    /\ last.op = "validate"
    /\ Len(last.args[1]) = 64
    /\ ObsNameRule(SubSeq(last.args[1], 1, 63))
    /\ last.err = ErrNameTooLong

C28_WitnessFirstChar ==
    /\ last.op = "validate"
    /\ last.args[1] = <<"_", "a">>
    /\ last.err = ErrNameInvalid

C28_WitnessMixed ==
    /\ last.op = "validate"
    /\ last.args[1] = <<"Z", "_", "9">>
    /\ last.err = Nil

\* A string without the white space at its two ends.
ObsTrimmed(s) ==
    LET keep == {i \in 1..Len(s) : s[i] \notin {" ", "\n", "\t", "\r"}}
    IN  IF keep = {} THEN <<>>
        ELSE SubSeq(s, CHOOSE i \in keep : \A j \in keep : i <= j,
                       CHOOSE i \in keep : \A j \in keep : i >= j)

\* C30: GetPreviousConfig after a SavePreviousConfig(n) that succeeded
\* returns n without the white space around it when that is not empty, and
\* fails with the not-found error when n is empty or white space only;
\* GetPreviousConfig also fails with the not-found error when nothing was
\* ever saved.
C30_HistoryRoundTrip ==
    /\ (last.op = "save-get" /\ HasEvent(last.log, "SavePreviousConfig", TRUE))
       => IF ObsTrimmed(last.args[1]) = <<>>
          THEN /\ last.found.err = ErrNoPrevious
               /\ ErrKind(last.found.err) = "NotFound"
               /\ last.found.name = <<>>
          ELSE last.found = [err |-> Nil, name |-> ObsTrimmed(last.args[1])]
    /\ (last.op = "get" /\ ~history.exists)
       => /\ last.found.err = ErrNoPrevious
          /\ ErrKind(last.found.err) = "NotFound"

\* " a\n" was saved and "a" came back.
C30_Witness ==
    /\ last.op = "save-get"
    /\ HasEvent(last.log, "SavePreviousConfig", TRUE)
    /\ last.args[1] = <<" ", "a", "\n">>
    /\ history = File(last.args[1])
    /\ last.found = [err |-> Nil, name |-> <<"a">>]

\* Reached as well: white space only was saved; nothing was ever saved.
C30_WitnessBlank ==
    /\ last.op = "save-get"
    /\ HasEvent(last.log, "SavePreviousConfig", TRUE)
    /\ last.args[1] = <<" ", "\n">>
    /\ last.found.err = ErrNoPrevious

C30_WitnessNeverSaved ==
    /\ last.op = "get"
    /\ ~history.exists
    /\ last.found.err = ErrNoPrevious

\* ------------------------------------------- claims on all the commands
\* The store as it was right before the i-th entry of the log.
ObsBefore(i) == IF i = 1 THEN last.pre.configs ELSE last.log[i - 1].configs

\* C27: from a store with exactly one active configuration, after any
\* sequence of switches, autos, creates, deletes, clones, renames and
\* imports in which any call may fail, and after every single call of
\* them, exactly one configuration of the store is active; and no delete
\* that went through was for the configuration that was active then.
C27_OneActiveAlways ==
    /\ Cardinality({c \in configs : c.IsActive}) = 1
    /\ Cardinality(ObsNames(configs)) = Cardinality(configs)
    /\ \A i \in 1..Len(last.log) :
          Cardinality({c \in last.log[i].configs : c.IsActive}) = 1
    /\ \A i \in ObsEvents(last.log, "DeleteConfiguration", TRUE) :
          /\ last.log[i].arg \notin ObsActive(ObsBefore(i))
          /\ ObsActive(last.log[i].configs) = ObsActive(ObsBefore(i))

\* c, which an earlier command created and made active, is the one active
\* configuration, and its delete was refused.
C27_Witness ==
    /\ last.op = "delete"
    /\ last.args = <<Str1("c")>>
    /\ last.err = ErrDeleteActive
    /\ ObsActive(configs) = {Str1("c")}
    /\ history.exists
    /\ Cardinality(configs) = 3

\* Reached as well: a rename whose cleanup was for the configuration that
\* gcloud had made active, and a delete that went through.
C27_WitnessCleanupRefused ==
    /\ last.op = "rename"
    /\ ObsEvents(last.log, "SetProperty", FALSE) # {}
    /\ ObsActive(configs) = {last.args[2]}
    /\ ObsActive(last.pre.configs) # {last.args[2]}
    /\ last.err = "failed to copy properties: account (cleanup also failed)"

C27_WitnessDeleted ==
    /\ last.op = "delete"
    /\ last.err = Nil
    /\ ObsEvents(last.log, "DeleteConfiguration", TRUE) # {}
    /\ last.args[1] \notin ObsNames(configs)
    /\ Cardinality(configs) = 1

\* The name a create, clone, rename or import is to create.
ObsNewName ==
    IF last.op = "create" THEN last.args[1]
    ELSE IF last.op \in {"clone", "rename"} THEN last.args[2]
    ELSE IF last.args[2] # <<>> THEN last.args[2]
    ELSE last.args[1].config.Name

\* C29 as stated: every name that create, clone, rename or import hand to
\* the create of the store satisfies the naming rule; a name that breaks it
\* is refused with the invalid-name error before any call that changes the
\* store.
C29_OnlyValidNamesCreated ==
    last.op \in {"create", "clone", "rename", "import"}
    => /\ \A i \in 1..Len(last.log) :
             last.log[i].ev = "CreateConfiguration"
             => ObsNameRule(last.log[i].arg)
       /\ ~ObsNameRule(ObsNewName)
          => /\ ErrKind(last.err) = "InvalidName"
             /\ ObsMutations(last.log) = {}
             /\ configs = last.pre.configs

\* `create 1`: the invalid name went to gcloud's create, which made the
\* configuration.
C29_InvalidNameCreated ==
    /\ last.op = "create"
    /\ last.args = <<BadName>>
    /\ ~ObsNameRule(BadName)
    /\ ObsEvents(last.log, "CreateConfiguration", TRUE) # {}
    /\ last.err = Nil
    /\ BadName \in ObsNames(configs)

\* Reached as well: `rename a 1` went to gcloud's create; clone and import
\* refused the name themselves.
C29_InvalidNameRenamed ==
    /\ last.op = "rename"
    /\ last.args[2] = BadName
    /\ \E i \in 1..Len(last.log) :
          last.log[i].ev = "CreateConfiguration" /\ last.log[i].arg = BadName
    /\ ErrKind(last.err) # "InvalidName"

C29_WitnessCloneRefused ==
    /\ last.op = "clone"
    /\ last.args[2] = BadName
    /\ last.err = ErrNameInvalid
    /\ ObsMutations(last.log) = {}

C29_WitnessImportRefused ==
    /\ last.op = "import"
    /\ last.args[1].config.Name = BadName
    /\ last.err = ErrNameInvalid
    /\ ObsMutations(last.log) = {}

\* ------------------------------------ claims on the history and markers
\* C31: ClearHistory, when the removal itself does not fail, succeeds
\* whether or not the history file exists; after it the file is absent and
\* GetPreviousConfig fails with the not-found error; on an absent file (a
\* second clear) it succeeds as well and changes nothing.
C31_ClearIsIdempotent ==
    (/\ last.op = "clear"
     /\ "remove-fails" \in last.flags => ~last.pre.history.exists)
    => /\ last.err = Nil
       /\ ~history.exists
       /\ ObsPrevious(history) = <<>>
       /\ last.found.err = ErrNoPrevious
       /\ ErrKind(last.found.err) = "NotFound"
       /\ ~last.pre.history.exists => history = last.pre.history
       /\ configs = last.pre.configs

\* A history that named a configuration was cleared.
C31_Witness ==
    /\ last.op = "clear"
    /\ last.pre.history.exists
    /\ ObsPrevious(last.pre.history) # <<>>
    /\ last.err = Nil
    /\ ~history.exists
    /\ last.found.err = ErrNoPrevious

\* Reached as well: the clear of a history that is absent.
C31_WitnessAbsent ==
    /\ last.op = "clear"
    /\ ~last.pre.history.exists
    /\ last.err = Nil
    /\ ~history.exists

\* C32 as stated: after a write of a non-blank name to the marker of dir
\* that went through, the lookup started at dir returns that name and dir.
C32_Original ==
    (last.op = "write" /\ last.flags = {"ok"} /\ ~ObsBlank(last.args[1]))
    => /\ last.found.err = Nil
       /\ last.found.name = last.args[1]
       /\ last.found.dir = last.cwd

\* C32 as amended: a write to the marker of dir that went through replaces
\* the contents of that marker by the name and a newline and leaves every
\* other marker as it was; for every non-blank name the lookup started at
\* dir then returns dir and the name without the white space around it
\* (the name itself when it has none), whatever dir's marker held before
\* and whatever the markers above dir hold.
C32_WriteThenFind ==
    (last.op = "write" /\ last.flags = {"ok"})
    => /\ last.err = Nil
       /\ markers[last.cwd] = [exists |-> TRUE, data |-> last.args[1] \o <<"\n">>]
       /\ \A d \in DOMAIN markers \ {last.cwd} : markers[d] = last.pre.markers[d]
       /\ ~ObsBlank(last.args[1])
          => /\ last.found.err = Nil
             /\ last.found.dir = last.cwd
             /\ last.found.name = ObsTrimmed(last.args[1])
             /\ ObsTrimmed(last.args[1]) = last.args[1]
                => last.found.name = last.args[1]

\* "a" was written over another binding, below a directory bound to
\* something else, and the lookup gives "a" and the directory.
C32_Witness ==
    /\ last.op = "write"
    /\ last.flags = {"ok"}
    /\ last.args = <<Str1("a")>>
    /\ Len(last.cwd) = 1
    /\ last.pre.markers[last.cwd] = File(MissingName)
    /\ last.pre.markers[<<>>] = File(MissingName)
    /\ markers[<<>>] = File(MissingName)
    /\ last.found = [err |-> Nil, name |-> Str1("a"), dir |-> last.cwd,
                     visited |-> <<last.cwd>>]

\* Reached as well: " a" was written and "a" came back.
C32_WitnessTrimmed ==
    /\ last.op = "write"
    /\ last.flags = {"ok"}
    /\ last.args = <<<<" ", "a">>>>
    /\ last.found.err = Nil
    /\ last.found.name = Str1("a")
    /\ last.found.dir = last.cwd

\* C33: RemoveLocalConfig, when the removal itself does not fail, succeeds
\* whether or not dir has a marker; afterwards dir has none and every other
\* marker is as it was, so the lookup started at dir gives what the nearest
\* directory above dir with a marker holds (its name, or the empty-binding
\* error for a blank one), and the not-found error when there is none.
C33_RemoveThenFind ==
    (/\ last.op = "remove"
     /\ "fail" \in last.flags => ~last.pre.markers[last.cwd].exists)
    => /\ last.err = Nil
       /\ ~markers[last.cwd].exists
       /\ \A d \in DOMAIN markers \ {last.cwd} : markers[d] = last.pre.markers[d]
       /\ IF ObsMarked(last.cwd) = {}
          THEN /\ last.found.err = ErrNoMarker
               /\ ErrKind(last.found.err) = "NotFound"
          ELSE /\ ObsNearest(last.cwd) # last.cwd
               /\ IF ObsBlank(markers[ObsNearest(last.cwd)].data)
                  THEN last.found.err = ErrMarkerEmpty
                  ELSE /\ last.found.err = Nil
                       /\ last.found.dir = ObsNearest(last.cwd)
                       /\ last.found.name
                            = ObsTrimmed(markers[ObsNearest(last.cwd)].data)

\* A marker was removed below a bound directory, and the lookup gives the
\* binding of that directory.
C33_Witness ==
    /\ last.op = "remove"
    /\ Len(last.cwd) = 2
    /\ last.pre.markers[last.cwd].exists
    /\ ~markers[last.cwd].exists
    /\ ~markers[<<"x">>].exists
    /\ last.err = Nil
    /\ last.found.err = Nil
    /\ last.found.dir = <<>>
    /\ last.found.name = Str1("a")

\* Reached as well: no marker to remove, and none above.
C33_WitnessAbsent ==
    /\ last.op = "remove"
    /\ ~last.pre.markers[last.cwd].exists
    /\ last.err = Nil
    /\ markers = last.pre.markers
    /\ last.found.err = ErrNoMarker

\* The invocation went to the interactive selection and fzf was canceled.
IsCanceledSelection ==
    /\ last.op = "interactive"
    /\ "canceled" \in last.flags
    /\ "interactive" \in last.flags \/ Len(last.args) = 1
    /\ ObsActive(last.pre.configs) # {}

\* C34: when the interactive selection is canceled, the invocation does
\* nothing and ends in success: nothing is reported as an error, no history
\* write, activation or sync is called, and store and history are as
\* before.
C34_CanceledSelectionIsNoOp ==
    IsCanceledSelection
    => /\ last.err = Nil
       /\ \A i \in 1..Len(last.log) : last.log[i].ev # "PrintError"
       /\ Calls(last.log) = {}
       /\ configs = last.pre.configs
       /\ history = last.pre.history

\* fzf was canceled over a store with another configuration to switch to
\* and a history naming it.
C34_Witness ==
    /\ IsCanceledSelection
    /\ "sync-adc" \in last.flags
    /\ ObsActive(last.pre.configs) = {Str1("a")}
    /\ Str1("b") \in ObsNames(last.pre.configs)
    /\ last.pre.history = File(<<"b", "\n">>)
    /\ \E i \in 1..Len(last.log) :
           last.log[i].ev = "SelectConfigurationInteractive" /\ ~last.log[i].ok
    /\ last.err = Nil
    /\ history = last.pre.history

\* Reached as well: a line was picked instead, and the switch was made.
C34_WitnessPicked ==
    /\ last.op = "interactive"
    /\ "picked" \in last.flags
    /\ last.args = <<Str1("b")>>
    /\ ObsActive(last.pre.configs) = {Str1("a")}
    /\ ObsActive(configs) = {Str1("b")}
    /\ last.err = Nil

\* The place of a call in the order of the steps of a switch.
ObsStepRank(ev) ==
    IF ev = "SavePreviousConfig" THEN 1
    ELSE IF ev = "ActivateConfiguration" THEN 2
    ELSE 3

\* C36: an invocation (switch by name, "-", auto, use) makes at most one
\* history write, at most one activation call and at most one credential
\* sync call, in that order; nothing is called after an activation or a
\* sync that failed, a failed history write is followed by the one
\* activation and not by a second write, and the sync is called only when
\* it was asked for.
C36_EachStepAtMostOnce ==
    LET cs == CallSeq(last.log)
    IN  last.op \in {"root", "auto", "use"}
        => /\ Len(cs) <= 3
           /\ \A i, j \in 1..Len(cs) :
                  i < j => ObsStepRank(cs[i].ev) < ObsStepRank(cs[j].ev)
           /\ \A i \in 1..Len(cs) :
                  /\ (~cs[i].ok /\ cs[i].ev # "SavePreviousConfig") => i = Len(cs)
                  /\ (~cs[i].ok /\ cs[i].ev = "SavePreviousConfig")
                     => /\ i = 1
                        /\ Len(cs) >= 2
                        /\ cs[2].ev = "ActivateConfiguration"
                  /\ cs[i].ev = "SyncADC" => "sync-adc" \in last.flags

\* A switch made all three calls, once each, in order.
C36_Witness ==
    /\ IsSwitchByName
    /\ "sync-adc" \in last.flags
    /\ Len(CallSeq(last.log)) = 3
    /\ CallSeq(last.log)[1].ev = "SavePreviousConfig"
    /\ CallSeq(last.log)[2].ev = "ActivateConfiguration"
    /\ CallSeq(last.log)[3].ev = "SyncADC"
    /\ last.err = Nil

\* Reached as well: the activation failed, and the invocation ended there.
C36_WitnessActivateFailed ==
    /\ SwitchReached
    /\ "sync-adc" \in last.flags
    /\ Len(CallSeq(last.log)) = 2
    /\ CallSeq(last.log)[1].ev = "SavePreviousConfig"
    /\ ~CallSeq(last.log)[1].ok
    /\ CallSeq(last.log)[2].ev = "ActivateConfiguration"
    /\ ~CallSeq(last.log)[2].ok
    /\ last.err = ErrActivate

\* C39: a switch by name from a store with no active profile fails with
\* the error of the lookup of the active profile, also when the target
\* exists: the existence of the target is never reported on, no history
\* write, activation or sync is called, and store and history stay as they
\* were.
C39_NoActiveFailsFirst ==
    (IsSwitchByName /\ ObsActive(last.pre.configs) = {})
    => /\ last.err = ErrNoActive
       /\ Calls(last.log) = {}
       /\ ~Reported(last.log, "PrintError", ErrConfigNotFound)
       /\ Reported(last.log, "PrintError", ErrNoActive)
       /\ configs = last.pre.configs
       /\ history = last.pre.history

\* The target exists, nothing is active, and the switch failed.
C39_Witness ==
    /\ IsSwitchByName
    /\ ObsActive(last.pre.configs) = {}
    /\ last.args[1] \in ObsNames(last.pre.configs)
    /\ last.err = ErrNoActive
    /\ ObsActive(configs) = {}

\* Reached as well: the target does not exist either, and the error is
\* still the one about the active profile.
C39_WitnessMissingTarget ==
    /\ IsSwitchByName
    /\ ObsActive(last.pre.configs) = {}
    /\ last.args[1] = MissingName
    /\ last.err = ErrNoActive

\* An import with --overwrite deleted the configuration that held its name
\* and then failed at the create or at a set.
ObsOverwriteBroken ==
    /\ ImportParsed
    /\ "overwrite" \in last.flags
    /\ \E i \in ObsEvents(last.log, "DeleteConfiguration", TRUE) :
          /\ last.log[i].arg = ObsImportName
          /\ ObsImportName \notin ObsNames(last.log[i].configs)
          /\ \E j \in ObsEvents(last.log, "CreateConfiguration", FALSE)
                      \cup ObsEvents(last.log, "SetProperty", FALSE) : j > i

\* C38 as stated: when the import with --overwrite has deleted the existing
\* configuration and the create or a set fails afterwards, the import ends
\* with an error and the store holds no configuration of that name.
C38_Original ==
    ObsOverwriteBroken
    => /\ last.err # Nil
       /\ ObsImportName \notin ObsNames(configs)

\* C38 as amended: when the import with --overwrite has deleted the
\* existing configuration and the create or a set fails afterwards, the
\* import ends with the error of that step and the old configuration is
\* not put back: the store holds no configuration of that name, unless a
\* set failed and the delete that cleans up failed or was refused (which is
\* warned about); the configuration of that name is then the new one, with no
\* property but the ones of the file that were set before the failure.
C38_OverwriteNotAtomic ==
    ObsOverwriteBroken
    => /\ last.err \in {ErrCreate} \cup {ErrSetProperty[k] : k \in DOMAIN ErrSetProperty}
       /\ \A i \in ObsMutations(last.log) : last.log[i].arg = ObsImportName
       /\ \A c \in ObsRecord(configs, ObsImportName) :
             /\ ObsEvents(last.log, "CreateConfiguration", TRUE) # {}
             /\ ObsEvents(last.log, "SetProperty", FALSE) # {}
             /\ \E j \in 1..Len(last.log) :
                   /\ last.log[j].ev = "Warning"
                   /\ last.log[j].msg = "failed to cleanup configuration"
                   /\ \E i \in ObsEvents(last.log, "SetProperty", FALSE) : i < j
             /\ \A k \in {"Account", "Project", "Region", "Zone"} :
                   c.Properties[k] \in {"", last.args[1].config[k]}
             /\ ~c.Properties.DisableUsageReport
             /\ \E k \in {"Account", "Project", "Region", "Zone"} :
                   c.Properties[k] = "" /\ last.args[1].config[k] # ""

\* a, with its account, project and zone, was deleted for the import, the
\* create failed, and a is gone.
C38_Witness ==
    /\ ObsOverwriteBroken
    /\ ObsImportName = Str1("a")
    /\ \E c \in last.pre.configs :
          c.Name = Str1("a") /\ c.Properties.Project = "p1" /\ ~c.IsActive
    /\ ObsEvents(last.log, "CreateConfiguration", FALSE) # {}
    /\ last.err = ErrCreate
    /\ ObsNames(configs) = {Str1("b")}

\* Reached as well: the last set failed and so did the cleanup, and a is
\* the new configuration with the account of the file and nothing else.
C38_WitnessLeftBehind ==
    /\ ObsOverwriteBroken
    /\ ObsImportName = Str1("a")
    /\ last.err = ErrSetProperty.Zone
    /\ \E c \in configs :
          /\ c.Name = Str1("a")
          /\ c.Properties.Account = "bob"
          /\ c.Properties.Project = ""
          /\ c.Properties.Zone = ""

\* The last command is none of the switches: create, delete, clone, rename,
\* import, export, and use without --switch (--unset included).
ObsNoSwitchCommand ==
    \/ last.op \in {"create", "delete", "clone", "rename", "import", "export"}
    \/ last.op = "use" /\ "switch" \notin last.flags

\* C37: create, delete, clone, rename, import, export and use without
\* --switch (--unset included) never call the history write and leave the
\* history file as it was, whatever they do to the store, the active
\* configuration included; a history file that changed was written by a
\* switch by name, "-", auto or use --switch.
C37_OnlySwitchesWriteHistory ==
    /\ ObsNoSwitchCommand
       => /\ history = last.pre.history
          /\ ObsEvents(last.log, "SavePreviousConfig", TRUE) = {}
          /\ ObsEvents(last.log, "SavePreviousConfig", FALSE) = {}
    /\ history # last.pre.history
       => /\ \/ last.op \in {"root", "auto"}
             \/ last.op = "use" /\ "switch" \in last.flags
          /\ ObsEvents(last.log, "SavePreviousConfig", TRUE) # {}

\* A create with --activate moved the active status from b to c, and the
\* history still names a, from the switch before.
C37_Witness ==
    /\ last.op = "create"
    /\ "activate" \in last.flags
    /\ last.err = Nil
    /\ ObsActive(last.pre.configs) = {Str1("b")}
    /\ ObsActive(configs) = {Str1("c")}
    /\ last.pre.history = File(Str1("a"))
    /\ history = File(Str1("a"))

\* Reached as well: the same for rename, clone and import, and a use
\* without --switch and an export after a switch.
C37_WitnessRename ==
    /\ last.op = "rename"
    /\ last.err = Nil
    /\ ObsActive(last.pre.configs) = {Str1("b")}
    /\ ObsActive(configs) = {Str1("c")}
    /\ history = File(Str1("a"))

C37_WitnessClone ==
    /\ last.op = "clone"
    /\ "activate" \in last.flags
    /\ last.err = Nil
    /\ ObsActive(last.pre.configs) = {Str1("b")}
    /\ ObsActive(configs) = {Str1("c")}
    /\ history = File(Str1("a"))

C37_WitnessImport ==
    /\ last.op = "import"
    /\ "activate" \in last.flags
    /\ last.err = Nil
    /\ ObsActive(last.pre.configs) = {Str1("b")}
    /\ ObsActive(configs) = {Str1("c")}
    /\ history = File(Str1("a"))

C37_WitnessUse ==
    /\ last.op = "use"
    /\ last.flags = {}
    /\ last.args = <<Str1("a")>>
    /\ last.err = Nil
    /\ ObsActive(configs) = {Str1("b")}
    /\ markers[<<>>] = File(<<"a", "\n">>)
    /\ history = File(Str1("a"))

C37_WitnessExport ==
    /\ last.op = "export"
    /\ last.err = Nil
    /\ "output" \in last.flags
    /\ history = File(Str1("a"))

\* ------------------------------------- claims on concurrent invocations
\* The two invocations have ended and nothing has run since.
ObsBothDone ==
    /\ last.op = "race"
    /\ \A p \in DOMAIN procs : procs[p].pc = "done"

\* The places in a sequence of events of the ones that went through.
ObsOk(events) == {i \in 1..Len(events) : events[i].ok}

\* The last of a non-empty set of places.
ObsLast(places) == CHOOSE i \in places : \A j \in places : j <= i

\* C35: at every moment of two interleaved switches the history file is
\* absent, empty, or holds one whole name, never a mix of two. When both
\* have ended and the history write made last went through, the history
\* file holds exactly the name that invocation had read as active; and when
\* an activation went through, the active configuration is the target of
\* the last activation that did.
C35_LastWriterWins ==
    last.op = "race"
    => /\ history.exists
          => history.data \in {<<>>, <<"a">>, <<"b">>, <<"c", "c">>}
       /\ (ObsBothDone /\ ~last.after.done)
          => /\ (last.writes # <<>> /\ last.writes[Len(last.writes)].ok)
                => history = [exists |-> TRUE,
                              data |-> procs[last.writes[Len(last.writes)].proc].current]
             /\ ObsOk(last.acts) # {}
                => ObsActive(configs)
                     = {procs[last.acts[ObsLast(ObsOk(last.acts))].proc].target}

\* Both invocations read cc as active before either activated; 1 wrote
\* first and activated last: history is cc, and a, 1's target, is active.
C35_Witness ==
    /\ ObsBothDone
    /\ ~last.after.done
    /\ procs[1].seen = 0 /\ procs[2].seen = 0
    /\ procs[1].target = <<"a">> /\ procs[2].target = <<"b">>
    /\ last.writes = <<[proc |-> 1, ok |-> TRUE], [proc |-> 2, ok |-> TRUE]>>
    /\ Len(last.acts) = 2
    /\ last.acts[1].proc = 2 /\ last.acts[1].ok
    /\ last.acts[2].proc = 1 /\ last.acts[2].ok
    /\ history = [exists |-> TRUE, data |-> <<"c", "c">>]
    /\ ObsActive(configs) = {<<"a">>}

\* Both invocations wrote history and activated their target, every call
\* went through, and `gcloudctx -` has run after them.
ObsBothSwitched ==
    /\ ObsBothDone
    /\ last.after.done
    /\ Len(last.writes) = 2 /\ ObsOk(last.writes) = {1, 2}
    /\ Len(last.acts) = 2 /\ ObsOk(last.acts) = {1, 2}

\* C40 as stated: after two interleaved switches that both went through,
\* `gcloudctx -` makes the configuration active that was active just before
\* the last activation.
C40_Original ==
    ObsBothSwitched
    => /\ last.after.err = Nil
       /\ ObsActive(configs) = {last.acts[2].before}

\* C40 as amended: after two interleaved switches that both went through,
\* history names the configuration that the invocation that wrote history
\* last had read as active, and `gcloudctx -` makes that one active. It is
\* the configuration that was active just before the last activation
\* exactly when the invocation that activated last had read the active
\* configuration after the activation of the other; when it had read it
\* before, both had read the same, and `gcloudctx -` goes back to the
\* configuration that was active before both activations.
C40_HistoryIsWhatLastWriterSaw ==
    ObsBothSwitched
    => LET seen == procs[last.writes[2].proc].current
           lastAct == procs[last.acts[2].proc]
       IN  /\ last.after.pre.history = [exists |-> TRUE, data |-> seen]
           /\ last.after.err = Nil
           /\ ObsActive(configs) = {seen}
           /\ (ObsActive(configs) = {last.acts[2].before}) <=> lastAct.seen = 1
           /\ lastAct.seen = 0
              => /\ procs[1].current = procs[2].current
                 /\ ObsActive(configs) = {last.acts[1].before}
                 /\ last.acts[2].before = procs[last.acts[1].proc].target

\* The two switches overlapped: a was active, 1 went to b and then 2 to cc,
\* both having read a; `gcloudctx -` went to a, not to b.
C40_Witness ==
    /\ ObsBothSwitched
    /\ procs[1].seen = 0 /\ procs[2].seen = 0
    /\ procs[1].target = <<"b">> /\ procs[2].target = <<"c", "c">>
    /\ last.acts[1].proc = 1 /\ last.acts[2].proc = 2
    /\ last.acts[2].before = <<"b">>
    /\ ObsActive(last.after.pre.configs) = {<<"c", "c">>}
    /\ last.after.pre.history = [exists |-> TRUE, data |-> <<"a">>]
    /\ ObsActive(configs) = {<<"a">>}

\* Reached as well: one switch after the other, and `gcloudctx -` went to
\* b, which was active just before the last activation.
C40_WitnessSerial ==
    /\ ObsBothSwitched
    /\ procs[1].seen = 0 /\ procs[2].seen = 1
    /\ procs[1].target = <<"b">> /\ procs[2].target = <<"c", "c">>
    /\ last.acts[2].before = <<"b">>
    /\ ObsActive(configs) = {<<"b">>}

====
